---- MODULE Spec2Model ----
(***************************************************************************)
(* State-machine model of assets/core/ReactiveObserve.ts: the proxy        *)
(* registry (rawToProxy / proxyToRaw), the dependency store                *)
(* (connectionStore), the trap handlers and the reaction engine            *)
(* (reactionStack, runReactionWrap, observe, unobserve).                   *)
(*                                                                         *)
(* Execution is synchronous and re-entrant: a write runs the affected      *)
(* reactions before it returns, and their bodies may write again.  The     *)
(* JavaScript call stack is the variable ctl, a sequence of frames; only   *)
(* the top frame can step, and the application (the top level) acts only   *)
(* when ctl is empty.                                                      *)
(***************************************************************************)
EXTENDS Integers, Sequences, FiniteSets, TLC

VARIABLES
    rawToProxy,       \* WeakMap raw -> proxy        (function, domain = wrapped raws)
    proxyToRaw,       \* WeakMap proxy -> raw        (function, domain = proxy ids)
    connectionStore,  \* WeakMap raw -> Map(key -> Set(reaction)), sets in insertion order
    obj,              \* own properties of the plain raw objects
    arr,              \* elements of the raw arrays
    map,              \* entries of the raw Maps
    reactions,        \* the reaction functions created by observe()
    unobserved,       \* reaction.unobserved
    cleaners,         \* reaction.cleaners: the sets (raw, key) the reaction is in
    reactionStack,    \* reactionStack
    ctl,              \* the call stack: handler, observe and body frames
    handles,          \* reactions whose handle observe() has returned to the caller
    reads,            \* history: the (raw, key) pairs read during a reaction's latest tracked run
    returned,         \* history: the last call of raw(), Map.get or Map.values by the
                      \* application: its argument, what it returned (val, vals), the
                      \* entry read (was) and whether that entry had a wrapper (had)
    binding,          \* a Binding component bound to o.a: its mode, the value its
                      \* element shows, _reaction, _data, and (history) the changes of
                      \* o.a and the updates of the element since it was loaded
    nodeDataList      \* _nodeDataList of an ItemsSource component bound to the array:
                      \* the data of each item node, in the order the nodes were added

vars == <<rawToProxy, proxyToRaw, connectionStore, obj, arr, map, reactions,
          unobserved, cleaners, reactionStack, ctl, handles, reads, returned, binding,
          nodeDataList>>

----------------------------------------------------------------------------
(* Bounds *)

\* primitive values are 0 .. MaxVal
MaxVal == 1
\* at most MaxReactions calls of observe() in one behaviour
MaxReactions == 3
\* arrays hold at most MaxLen elements
MaxLen == 3
\* at most MaxChanges changes of the source of a loaded Binding
MaxChanges == 3
\* the call stack holds at most MaxDepth frames
MaxDepth == 9

----------------------------------------------------------------------------
(* Values *)

Prim(n)  == [t |-> "prim",  n |-> n, o |-> ""]
Raw(id)  == [t |-> "raw",   n |-> 0, o |-> id]
Proxy(p) == [t |-> "proxy", n |-> p, o |-> ""]
Undef    == [t |-> "undef", n |-> 0, o |-> ""]
NaN      == [t |-> "nan",   n |-> 0, o |-> ""]

PrimVals == {Prim(n) : n \in 0 .. MaxVal}

\* a !== b
StrictNe(a, b) == a # b \/ a = NaN

\* the raw objects of the heap and their constructors
PlainIds == {"o", "n"}
ArrIds   == {"arr"}
MapIds   == {"m"}
DateIds  == {"d"}
RawIds   == PlainIds \cup ArrIds \cup MapIds \cup DateIds

Constructor(id) ==
    IF id \in PlainIds THEN "Object"
    ELSE IF id \in ArrIds THEN "Array"
    ELSE IF id \in MapIds THEN "Map"
    ELSE "Date"

\* typeof val === "object" && val !== null
isObject(val) == val.t \in {"raw", "proxy"}

\* the raw object a proxy was made for (new Proxy(x, ...)) is x itself; the
\* constructor seen through a proxy is its target's
RECURSIVE ConstructorOf(_, _)
ConstructorOf(ptr, x) ==
    IF x.t = "raw" THEN Constructor(x.o)
    ELSE IF x.n \in DOMAIN ptr THEN ConstructorOf(ptr, ptr[x.n]) ELSE "Object"

\* a function value (a method of Array.prototype)
Fn       == [t |-> "fn", n |-> 0, o |-> ""]

\* JavaScript truthiness of a value
Truthy(val) == CASE val.t = "prim" -> val.n # 0
                 [] val.t \in {"raw", "proxy"} -> TRUE
                 [] OTHER -> FALSE

----------------------------------------------------------------------------
(* Handlers table and registry *)

baseHandlers       == "baseHandlers"
arrayHandlers      == "arrayHandlers"
collectionHandlers == "collectionHandlers"

\* const handlers = new Map([[Object, ...], [Array, ...], [Map, ...], ...])
handlers == [c \in {"Object", "Array", "Map"} |->
                CASE c = "Object" -> baseHandlers
                  [] c = "Array"  -> arrayHandlers
                  [] c = "Map"    -> collectionHandlers]

getHandlers(constructor) ==
    IF constructor \in DOMAIN handlers THEN handlers[constructor] ELSE baseHandlers

\* shouldInstrument that admits every constructor
shouldInstrumentAll(constructor) == TRUE

\* every constructor of the heap is a global built-in; only the registered ones
\* are instrumented
shouldInstrument(constructor) ==
    LET isBuiltIn == constructor \in {"Object", "Array", "Map", "Date"}
    IN  ~isBuiltIn \/ constructor \in DOMAIN handlers

\* the registry and the store as one value, for the operators below
Reg == [rtp |-> rawToProxy, ptr |-> proxyToRaw, cs |-> connectionStore]

MapSet(f, k, v) == [x \in DOMAIN f \cup {k} |-> IF x = k THEN v ELSE f[x]]

EmptyMap == [x \in {} |-> 0]

\* new Proxy(raw, ...): an object distinct from every proxy made so far
NewProxy(reg) == Cardinality(DOMAIN reg.ptr) + 1

\* the maps are keyed by objects (values of kind raw or proxy)
storeObservable(reg, x) == [reg EXCEPT !.cs = MapSet(reg.cs, x, EmptyMap)]

\* createReactive that records the mapping in one direction only
createReactiveOneWay(reg, x) ==
    LET p  == NewProxy(reg)
        r1 == [reg EXCEPT !.rtp = MapSet(reg.rtp, x, p)]
    IN  [reg |-> storeObservable(r1, x), ret |-> Proxy(p)]

createReactive(reg, x) ==
    LET p  == NewProxy(reg)
        r1 == [reg EXCEPT !.rtp = MapSet(reg.rtp, x, p), !.ptr = MapSet(reg.ptr, p, x)]
    IN  [reg |-> storeObservable(r1, x), ret |-> Proxy(p)]

\* proxyToRaw.has(x)
isProxy(reg, x) == x.t = "proxy" /\ x.n \in DOMAIN reg.ptr

\* reactive without the lookup of an existing proxy
reactiveNoLookup(reg, x) ==
    IF isProxy(reg, x) \/ ~shouldInstrument(ConstructorOf(reg.ptr, x))
    THEN [reg |-> reg, ret |-> x]
    ELSE createReactive(reg, x)

\* reactive that stores a new entry for an object that already has a proxy
reactiveRestores(reg, x) ==
    IF isProxy(reg, x) \/ ~shouldInstrument(ConstructorOf(reg.ptr, x))
    THEN [reg |-> reg, ret |-> x]
    ELSE IF x \in DOMAIN reg.rtp
    THEN [reg |-> storeObservable(reg, x), ret |-> Proxy(reg.rtp[x])]
    ELSE createReactive(reg, x)

\* reactive(x) for an object x: the value returned and the registry after the call
reactive(reg, x) ==
    IF isProxy(reg, x) \/ ~shouldInstrument(ConstructorOf(reg.ptr, x))
    THEN [reg |-> reg, ret |-> x]
    ELSE IF x \in DOMAIN reg.rtp
    THEN [reg |-> reg, ret |-> Proxy(reg.rtp[x])]
    ELSE createReactive(reg, x)

\* raw that returns its argument when it is no key of the map
rawOrSelf(reg, x) == IF isProxy(reg, x) THEN reg.ptr[x.n] ELSE x

\* raw that returns a wrapper as it is
rawKeepsWrapper(reg, x) == IF isProxy(reg, x) THEN x ELSE Undef

\* raw(x): proxyToRaw.get(x), undefined when x is no key of the map
raw(reg, x) == IF isProxy(reg, x) THEN reg.ptr[x.n] ELSE Undef

----------------------------------------------------------------------------
(* Sets in insertion order (JavaScript Set) as sequences without repetition *)

Range(seq) == {seq[i] : i \in 1 .. Len(seq)}

SetAdd(seq, x) == IF x \in Range(seq) THEN seq ELSE Append(seq, x)

RECURSIVE SetDelete(_, _)
SetDelete(seq, x) ==
    IF seq = <<>> THEN <<>>
    ELSE IF Head(seq) = x THEN SetDelete(Tail(seq), x)
    ELSE <<Head(seq)>> \o SetDelete(Tail(seq), x)

RECURSIVE SetAddAll(_, _)
SetAddAll(seq, more) ==
    IF more = <<>> THEN seq ELSE SetAddAll(SetAdd(seq, Head(more)), Tail(more))

Last(seq) == seq[Len(seq)]
Front(seq) == SubSeq(seq, 1, Len(seq) - 1)

----------------------------------------------------------------------------
(* Operations (interface Operation) *)

ITERATION_KEY == "Symbol(iteration key)"

NoOp == [type |-> "none", target |-> "", key |-> "", value |-> Undef, oldValue |-> Undef,
         inserted |-> <<>>, hasInserted |-> FALSE, insertedStart |-> Prim(-1),
         deleted |-> <<>>, hasDeleted |-> FALSE, deletedStart |-> Prim(-1)]

Op(type, target, key) == [NoOp EXCEPT !.type = type, !.target = target, !.key = key]

----------------------------------------------------------------------------
(* The whole program state as one value; the handlers below are functions   *)
(* from state to state                                                      *)

\* a Binding component that is not loaded; _reaction = null is ""
NoBinding == [mode |-> "", loaded |-> FALSE, element |-> Undef, reaction |-> "",
              data |-> Undef, changes |-> 0, updates |-> 0]

\* no call recorded
NoCall == [fn |-> "", arg |-> Undef, val |-> Undef, vals |-> <<>>, was |-> <<>>, had |-> {}]

St == [rtp |-> rawToProxy, ptr |-> proxyToRaw, cs |-> connectionStore,
       obj |-> obj, arr |-> arr, map |-> map,
       reactions |-> reactions, unobserved |-> unobserved, cleaners |-> cleaners,
       stack |-> reactionStack, ctl |-> ctl, handles |-> handles, reads |-> reads,
       returned |-> returned, binding |-> binding, nodeDataList |-> nodeDataList]

\* the state S becomes the next state (S is evaluated once)
Commit(S) ==
    \E T \in {S} :
        /\ rawToProxy' = T.rtp
        /\ proxyToRaw' = T.ptr
        /\ connectionStore' = T.cs
        /\ obj' = T.obj
        /\ arr' = T.arr
        /\ map' = T.map
        /\ reactions' = T.reactions
        /\ unobserved' = T.unobserved
        /\ cleaners' = T.cleaners
        /\ reactionStack' = T.stack
        /\ ctl' = T.ctl
        /\ handles' = T.handles
        /\ reads' = T.reads
        /\ returned' = T.returned
        /\ binding' = T.binding
        /\ nodeDataList' = T.nodeDataList

RegOf(S) == [rtp |-> S.rtp, ptr |-> S.ptr, cs |-> S.cs]
WithReg(S, reg) == [S EXCEPT !.rtp = reg.rtp, !.ptr = reg.ptr, !.cs = reg.cs]

----------------------------------------------------------------------------
(* store: registerReactionForOperation, getReactionsForOperation,           *)
(* releaseReaction                                                           *)

\* the set of (target, key), empty when the key has no set yet
ReactionsFor(cs, target, key) ==
    IF Raw(target) \in DOMAIN cs /\ key \in DOMAIN cs[Raw(target)]
    THEN cs[Raw(target)][key] ELSE <<>>

\* registerReactionForOperation without the test reactionsForKey.has(reaction):
\* the set is pushed to the cleaners at every read
registerReactionForOperationNoHas(S, reaction, target, key0, type) ==
    LET key == IF type = "iterate" THEN ITERATION_KEY ELSE key0
        reactionsForRaw == S.cs[Raw(target)]
        reactionsForKey == IF key \in DOMAIN reactionsForRaw THEN reactionsForRaw[key] ELSE <<>>
    IN  [S EXCEPT !.cs[Raw(target)] =
                        MapSet(reactionsForRaw, key, SetAdd(reactionsForKey, reaction)),
                  !.cleaners[reaction] = Append(@, <<target, key>>)]

registerReactionForOperation(S, reaction, target, key0, type) ==
    LET key == IF type = "iterate" THEN ITERATION_KEY ELSE key0
        reactionsForRaw == S.cs[Raw(target)]
        reactionsForKey == IF key \in DOMAIN reactionsForRaw THEN reactionsForRaw[key] ELSE <<>>
    IN  IF reaction \in Range(reactionsForKey)
        THEN [S EXCEPT !.cs[Raw(target)] = MapSet(reactionsForRaw, key, reactionsForKey)]
        ELSE [S EXCEPT !.cs[Raw(target)] =
                            MapSet(reactionsForRaw, key, Append(reactionsForKey, reaction)),
                       !.cleaners[reaction] = Append(@, <<target, key>>)]

\* addReactionsForKey into a list, not a Set: a reaction already collected is
\* collected again
addReactionsForKeyList(reactionsForKey, reactionsForTarget, key) ==
    IF key \in DOMAIN reactionsForTarget
    THEN reactionsForKey \o reactionsForTarget[key]
    ELSE reactionsForKey

\* addReactionsForKey that falls back on the set of the iteration key when the
\* key has no set
addReactionsForKeyFallback(reactionsForKey, reactionsForTarget, key) ==
    IF key \in DOMAIN reactionsForTarget
    THEN SetAddAll(reactionsForKey, reactionsForTarget[key])
    ELSE IF ITERATION_KEY \in DOMAIN reactionsForTarget
    THEN SetAddAll(reactionsForKey, reactionsForTarget[ITERATION_KEY])
    ELSE reactionsForKey

addReactionsForKey(reactionsForKey, reactionsForTarget, key) ==
    IF key \in DOMAIN reactionsForTarget
    THEN SetAddAll(reactionsForKey, reactionsForTarget[key])
    ELSE reactionsForKey

\* getReactionsForOperation without the set of the key itself
getReactionsForOperationIterationOnly(S, op) ==
    LET reactionsForTarget == S.cs[Raw(op.target)]
    IN  IF op.type \in {"add", "delete", "clear", "array"}
        THEN LET iterationKey == IF Constructor(op.target) = "Array" THEN "length" ELSE ITERATION_KEY
             IN  addReactionsForKey(<<>>, reactionsForTarget, iterationKey)
        ELSE <<>>

\* getReactionsForOperation that adds the set of the iteration key for every type
getReactionsForOperationAllTypes(S, op) ==
    LET reactionsForTarget == S.cs[Raw(op.target)]
        forKey == addReactionsForKey(<<>>, reactionsForTarget, op.key)
        iterationKey == IF Constructor(op.target) = "Array" THEN "length" ELSE ITERATION_KEY
    IN  addReactionsForKey(forKey, reactionsForTarget, iterationKey)

getReactionsForOperation(S, op) ==
    LET reactionsForTarget == S.cs[Raw(op.target)]
        forKey == addReactionsForKey(<<>>, reactionsForTarget, op.key)
    IN  IF op.type \in {"add", "delete", "clear", "array"}
        THEN LET iterationKey == IF Constructor(op.target) = "Array" THEN "length" ELSE ITERATION_KEY
             IN  addReactionsForKey(forKey, reactionsForTarget, iterationKey)
        ELSE forKey

RECURSIVE ReleaseAll(_, _, _)
ReleaseAll(cs, list, reaction) ==
    IF list = <<>> THEN cs
    ELSE LET t == Head(list)[1]
             k == Head(list)[2]
         IN  ReleaseAll([cs EXCEPT ![Raw(t)][k] = SetDelete(@, reaction)], Tail(list), reaction)

\* releaseReaction that leaves reaction.cleaners as it is
releaseReactionKeepsList(S, reaction) ==
    [S EXCEPT !.cs = ReleaseAll(S.cs, S.cleaners[reaction], reaction)]

releaseReaction(S, reaction) ==
    [S EXCEPT !.cs = ReleaseAll(S.cs, S.cleaners[reaction], reaction),
              !.cleaners[reaction] = <<>>]

----------------------------------------------------------------------------
(* reaction: reactionStack                                                   *)

isRunning(S, reaction) == reaction \in Range(S.stack)

hasRunningReaction(S) == Len(S.stack) > 0

\* "" stands for undefined (the stack is empty)
getRunningReaction(S) == IF S.stack = <<>> THEN "" ELSE Last(S.stack)

\* registerRunningReaction that registers the reaction whose function is being
\* applied, whether or not it is on the reaction stack
registerRunningReactionApplied(S, target, key, type) ==
    IF S.ctl # <<>> /\ S.ctl[Len(S.ctl)].k = "body"
    THEN registerReactionForOperation(S, S.ctl[Len(S.ctl)].r, target, key, type)
    ELSE S

registerRunningReaction(S, target, key, type) ==
    LET runningReaction == getRunningReaction(S)
    IN  IF runningReaction # ""
        THEN registerReactionForOperation(S, runningReaction, target, key, type)
        ELSE S

----------------------------------------------------------------------------
(* Frames of the call stack.  A handler frame is a running trap (set,       *)
(* deleteProperty, an array method, Map.set): the raw object is already     *)
(* modified and queue holds the reactions forEach has still to call.  A     *)
(* body frame is a running reaction function fn; an observe frame is a      *)
(* running observe().  The fields what .. started of a handler frame other  *)
(* than op and queue are history: what the trap was called with and what    *)
(* held when it was called.  stk is reactionStack as it was when the call   *)
(* of the frame was made.  A frame of kind "exc" on top of the stack is an  *)
(* exception in flight, thrown out of the call that was above it; caught    *)
(* counts the exceptions a body frame has caught, and cleanersAt is the     *)
(* cleaners list of its reaction when the call was made.                    *)

Frame == [k |-> "", r |-> "", pc |-> 1, acc |-> Undef, pushed |-> FALSE, arg |-> NoOp,
          cause |-> "", calls |-> 0,
          what |-> "", target |-> "", key |-> "", wval |-> Undef, args |-> <<>>,
          pre |-> EmptyMap,
          op |-> NoOp, queue |-> <<>>, snap |-> <<>>, started |-> <<>>,
          stackAt |-> {}, stoppedAt |-> {}, readsAt |-> EmptyMap, stk |-> <<>>,
          caught |-> 0, cleanersAt |-> <<>>]

Top(S) == Last(S.ctl)
Pop(S) == [S EXCEPT !.ctl = Front(S.ctl)]
Push(S, f) == [S EXCEPT !.ctl = Append(S.ctl, f)]
SetTop(S, f) == [S EXCEPT !.ctl[Len(S.ctl)] = f]

\* history: the reactions whose tracked run is in progress, innermost last
RECURSIVE TrackedRuns(_)
TrackedRuns(c) ==
    IF c = <<>> THEN <<>>
    ELSE IF Head(c).k = "body" /\ Head(c).pushed THEN <<Head(c).r>> \o TrackedRuns(Tail(c))
    ELSE TrackedRuns(Tail(c))

\* history: the tracked run a read made now belongs to ("" when there is none);
\* the body of a stopped reaction runs as a plain function of its caller
EnclosingRun(S) ==
    LET t == TrackedRuns(S.ctl) IN IF t = <<>> THEN "" ELSE Last(t)

NoteRead(S, target, key) ==
    LET e == EnclosingRun(S)
    IN  IF e = "" THEN S ELSE [S EXCEPT !.reads[e] = @ \cup {<<target, key>>}]

----------------------------------------------------------------------------
(* runReactionWrap, queueReactionsForOperation, observe, unobserve          *)

BodyFrame(reaction, arg, cause, pushed) ==
    [Frame EXCEPT !.k = "body", !.r = reaction, !.arg = arg, !.cause = cause, !.pushed = pushed]

\* runReactionWrap without releaseReaction before the run
runReactionWrapNoRelease(S, reaction, arg, cause) ==
    IF S.unobserved[reaction]
    THEN Push(S, [BodyFrame(reaction, arg, cause, FALSE)
                     EXCEPT !.stk = S.stack, !.cleanersAt = S.cleaners[reaction]])
    ELSE IF isRunning(S, reaction)
    THEN S
    ELSE LET S2 == [S EXCEPT !.stack = Append(@, reaction), !.reads[reaction] = {}]
         IN  Push(S2, [BodyFrame(reaction, arg, cause, TRUE)
                          EXCEPT !.stk = S.stack, !.cleanersAt = S.cleaners[reaction]])

runReactionWrap(S, reaction, arg, cause) ==
    IF S.unobserved[reaction]
    THEN Push(S, [BodyFrame(reaction, arg, cause, FALSE)
                     EXCEPT !.stk = S.stack, !.cleanersAt = S.cleaners[reaction]])
    ELSE IF isRunning(S, reaction)
    THEN S
    ELSE LET S1 == releaseReaction(S, reaction)
             S2 == [S1 EXCEPT !.stack = Append(@, reaction), !.reads[reaction] = {}]
         IN  Push(S2, [BodyFrame(reaction, arg, cause, TRUE)
                          EXCEPT !.stk = S.stack, !.cleanersAt = S.cleaners[reaction]])

\* the end of fn without the finally block of runReactionWrap
BodyEndNoPop(S) == Pop(S)

\* the end of fn: return, and the finally block of runReactionWrap
BodyEnd(S) ==
    IF Top(S).pushed THEN [Pop(S) EXCEPT !.stack = Front(@)] ELSE Pop(S)

\* an exception leaves the call of the top frame: the frame is dropped and the
\* exception is in flight above its caller
Raise(S) == Push(Pop(S), [Frame EXCEPT !.k = "exc", !.stk = Top(S).stk, !.what = Top(S).k])

\* fn throws without the finally block of runReactionWrap
BodyAbortNoFinally(S) == Raise(S)

\* fn throws: the finally block of runReactionWrap, then the exception goes on
\* to the caller of the reaction
BodyAbort(S) ==
    IF Top(S).pushed THEN Raise([S EXCEPT !.stack = Front(@)]) ELSE Raise(S)

\* queueReactionsForOperation(op), called by trap `what` on (target, key) with
\* value wval or arguments args, pre being the raw object before the trap changed it; op.type is
\* "none" when the trap does not call it
queueReactionsForOperation(S, what, target, key, wval, args, pre, op) ==
    LET q == IF op.type = "none" THEN <<>> ELSE getReactionsForOperation(S, op)
    IN  Push(S, [Frame EXCEPT !.k = "handler", !.what = what, !.target = target, !.key = key,
                              !.wval = wval, !.args = args, !.pre = pre,
                              !.op = op, !.queue = q, !.snap = q,
                              !.stackAt = Range(TrackedRuns(S.ctl)),
                              !.stoppedAt = {r \in S.reactions : S.unobserved[r]},
                              !.readsAt = S.reads, !.stk = S.stack])

\* forEach(reaction => reaction(operation)): the next call
InvokeNext(S) ==
    LET f  == Top(S)
        r  == Head(f.queue)
        S1 == SetTop(S, [f EXCEPT !.queue = Tail(@)])
        S2 == runReactionWrap(S1, r, f.op, "trigger")
    IN  IF Len(S2.ctl) > Len(S1.ctl)
        THEN [S2 EXCEPT !.ctl[Len(S.ctl)].started = Append(@, r)]
        ELSE S2

\* unobserve without the test of reaction.unobserved
unobserveNoGuard(S, reaction) ==
    releaseReaction([S EXCEPT !.unobserved[reaction] = TRUE], reaction)

unobserve(S, reaction) ==
    IF ~S.unobserved[reaction]
    THEN releaseReaction([S EXCEPT !.unobserved[reaction] = TRUE], reaction)
    ELSE S

\* observe(fn): the reaction is created; reaction() is the next step
observe(S, fn) ==
    Push([S EXCEPT !.reactions = @ \cup {fn},
                   !.unobserved = MapSet(@, fn, FALSE),
                   !.cleaners = MapSet(@, fn, <<>>),
                   !.reads = MapSet(@, fn, {})],
         [Frame EXCEPT !.k = "observe", !.r = fn, !.pc = 1, !.stk = S.stack])

\* observe without the first run
observeCallLazy(S) == SetTop(S, [Top(S) EXCEPT !.pc = 2])

\* reaction() inside observe
observeCall(S) ==
    LET f  == Top(S)
        S1 == SetTop(S, [f EXCEPT !.pc = 2])
        S2 == runReactionWrap(S1, f.r, NoOp, "observe")
    IN  IF Len(S2.ctl) > Len(S1.ctl)
        THEN [S2 EXCEPT !.ctl[Len(S.ctl)].calls = @ + 1]
        ELSE S2

\* return reaction
observeReturn(S) == [Pop(S) EXCEPT !.handles = @ \cup {Top(S).r}]

----------------------------------------------------------------------------
(* Binding: onUpdateData and setDataValue of a component bound to o.a       *)

BindingModes == {"OneWay", "OneTime"}

\* setDataValue(value): setElementValue, then the test of the mode
setDataValue(S, value) ==
    LET S1 == [S EXCEPT !.binding.element = value,
                        !.binding.updates = IF S.binding.loaded THEN @ + 1 ELSE @]
    IN  IF S1.binding.mode = "OneTime" /\ S1.binding.reaction # ""
        THEN unobserve(S1, S1.binding.reaction)
        ELSE S1

\* onUpdateData() up to the call of observe: _data is read through the wrapper
\* and observe(fn) is called; the frame "load" is the call of onUpdateData
onUpdateData(S, mode, data) ==
    LET S1 == [S EXCEPT !.binding = [NoBinding EXCEPT !.mode = mode, !.data = data]]
    IN  observe(Push(S1, [Frame EXCEPT !.k = "load", !.stk = S.stack]), "binding")

\* observe has returned: this._reaction = reaction; this.setDataValue(this._data)
onUpdateDataEnd(S) ==
    LET S1 == [Pop(S) EXCEPT !.binding.reaction = "binding"]
        S2 == setDataValue(S1, S1.binding.data)
    IN  [S2 EXCEPT !.binding.loaded = TRUE]

----------------------------------------------------------------------------
(* baseHandlers                                                             *)

OwnKeys(S, target) == DOMAIN S.obj[target]

\* get: the value returned and the state after
baseGet(S, target, key) ==
    LET result == IF key \in OwnKeys(S, target) THEN S.obj[target][key] ELSE Undef
        S1 == registerRunningReaction(S, target, key, "get")
    IN  IF isObject(result)
        THEN IF result \in DOMAIN S1.rtp
             THEN [S |-> S1, ret |-> Proxy(S1.rtp[result])]
             ELSE LET res == reactive(RegOf(S1), result)
                  IN  [S |-> WithReg(S1, res.reg), ret |-> res.ret]
        ELSE [S |-> S1, ret |-> result]

baseOwnKeys(S, target) == registerRunningReaction(S, target, "", "iterate")

\* set that reports a new key as a change of value
baseSetNoAdd(S, target, key, value0) ==
    LET value == IF isObject(value0) /\ isProxy(RegOf(S), value0)
                 THEN S.ptr[value0.n] ELSE value0
        hadKey == key \in OwnKeys(S, target)
        oldValue == IF hadKey THEN S.obj[target][key] ELSE Undef
        S1 == [S EXCEPT !.obj[target] = MapSet(@, key, value)]
        op == IF StrictNe(oldValue, value)
              THEN [Op("set", target, key) EXCEPT !.value = value, !.oldValue = oldValue]
              ELSE NoOp
    IN  queueReactionsForOperation(S1, "set", target, key, value0, <<>>, S.obj[target], op)

\* set that calls the reactions without having stored the value
baseSetUnstored(S, target, key, value0) ==
    LET value == IF isObject(value0) /\ isProxy(RegOf(S), value0)
                 THEN S.ptr[value0.n] ELSE value0
        hadKey == key \in OwnKeys(S, target)
        oldValue == IF hadKey THEN S.obj[target][key] ELSE Undef
        op == IF ~hadKey
              THEN [Op("add", target, key) EXCEPT !.value = value]
              ELSE IF StrictNe(oldValue, value)
              THEN [Op("set", target, key) EXCEPT !.value = value, !.oldValue = oldValue]
              ELSE NoOp
    IN  queueReactionsForOperation(S, "set", target, key, value0, <<>>, S.obj[target], op)

baseSet(S, target, key, value0) ==
    LET value == IF isObject(value0) /\ isProxy(RegOf(S), value0)
                 THEN S.ptr[value0.n] ELSE value0
        hadKey == key \in OwnKeys(S, target)
        oldValue == IF hadKey THEN S.obj[target][key] ELSE Undef
        S1 == [S EXCEPT !.obj[target] = MapSet(@, key, value)]
        op == IF ~hadKey
              THEN [Op("add", target, key) EXCEPT !.value = value]
              ELSE IF StrictNe(oldValue, value)
              THEN [Op("set", target, key) EXCEPT !.value = value, !.oldValue = oldValue]
              ELSE NoOp
    IN  queueReactionsForOperation(S1, "set", target, key, value0, <<>>, S.obj[target], op)

baseDeleteProperty(S, target, key) ==
    LET hadKey == key \in OwnKeys(S, target)
        oldValue == IF hadKey THEN S.obj[target][key] ELSE Undef
        S1 == [S EXCEPT !.obj[target] = [x \in DOMAIN @ \ {key} |-> @[x]]]
        op == IF hadKey
              THEN [Op("delete", target, key) EXCEPT !.oldValue = oldValue]
              ELSE NoOp
    IN  queueReactionsForOperation(S1, "deleteProperty", target, key, Undef, <<>>,
                                   S.obj[target], op)

----------------------------------------------------------------------------
(* arrayHandlers and doArrayKeys.  A raw array is a sequence; the property   *)
(* key of index i is IndexKeys[i + 1].                                       *)

IndexKeys == <<"0", "1", "2", "3", "4", "5">>
IsIndexKey(key) == \E i \in 1 .. Len(IndexKeys) : IndexKeys[i] = key
IndexOfKey(key) == (CHOOSE i \in 1 .. Len(IndexKeys) : IndexKeys[i] = key) - 1

MutatingMethods == {"push", "pop", "shift", "unshift", "splice"}
ArrayMethods == MutatingMethods \cup {"indexOf", "lastIndexOf", "forEach", "join"}

Min(a, b) == IF a < b THEN a ELSE b
Max(a, b) == IF a > b THEN a ELSE b

\* args[i - 1], undefined past the end
ArgAt(args, i) == IF Len(args) >= i THEN args[i] ELSE Undef

\* Reflect.get(target, key) on a raw array
ArrayReflectGet(a, key) ==
    IF key = "length" THEN Prim(Len(a))
    ELSE IF IsIndexKey(key)
    THEN IF IndexOfKey(key) < Len(a) THEN a[IndexOfKey(key) + 1] ELSE Undef
    ELSE IF key \in ArrayMethods THEN Fn
    ELSE Undef

\* ToIntegerOrInfinity(argument) and Number(argument)
ToInteger(v) == IF v.t = "prim" THEN v.n ELSE 0
NumberOf(v)  == IF v.t = "prim" THEN v ELSE NaN

\* the value a call returns: a scalar, or a new array
Scalar(v)   == [isArr |-> FALSE, v |-> v, a |-> <<>>]
NewArray(a) == [isArr |-> TRUE, v |-> Undef, a |-> a]

\* Array.prototype.splice(...args) on a: the array after, and the array returned
NativeSplice(a, args) ==
    LET len    == Len(a)
        rel    == ToInteger(ArgAt(args, 1))
        start  == IF rel < 0 THEN Max(len + rel, 0) ELSE Min(rel, len)
        count  == IF Len(args) = 0 THEN 0
                  ELSE IF Len(args) = 1 THEN len - start
                  ELSE Min(Max(ToInteger(args[2]), 0), len - start)
        items  == IF Len(args) > 2 THEN SubSeq(args, 3, Len(args)) ELSE <<>>
    IN  [after  |-> SubSeq(a, 1, start) \o items \o SubSeq(a, start + count + 1, len),
         result |-> NewArray(SubSeq(a, start + 1, start + count))]

\* Reflect.apply(Array.prototype[key], a, args): the array after and the result
NativeApply(key, a, args) ==
    CASE key = "push"    -> [after |-> a \o args, result |-> Scalar(Prim(Len(a) + Len(args)))]
      [] key = "unshift" -> [after |-> args \o a, result |-> Scalar(Prim(Len(a) + Len(args)))]
      [] key = "pop"     -> IF a = <<>> THEN [after |-> a, result |-> Scalar(Undef)]
                            ELSE [after |-> Front(a), result |-> Scalar(Last(a))]
      [] key = "shift"   -> IF a = <<>> THEN [after |-> a, result |-> Scalar(Undef)]
                            ELSE [after |-> Tail(a), result |-> Scalar(Head(a))]
      [] key = "splice"  -> NativeSplice(a, args)
      [] OTHER           -> [after |-> a, result |-> Scalar(Undef)]

\* the operation with push reporting the length after the call as the place
\* of insertion
ArrayOperationPushAtEnd(target, key, args, result, length) ==
    LET base == Op("array", target, key) IN
    CASE key = "push" ->
            [base EXCEPT !.hasInserted = TRUE, !.inserted = args,
                         !.insertedStart = Prim(length)]
      [] key = "pop" ->
            [base EXCEPT !.hasDeleted = TRUE, !.deleted = <<result.v>>,
                         !.deletedStart = Prim(length)]
      [] key = "shift" ->
            [base EXCEPT !.hasDeleted = TRUE, !.deleted = <<result.v>>,
                         !.deletedStart = Prim(0)]
      [] key = "unshift" ->
            [base EXCEPT !.hasInserted = TRUE, !.inserted = args,
                         !.insertedStart = Prim(0)]
      [] key = "splice" ->
            LET startIdx    == NumberOf(ArgAt(args, 1))
                deleteCount == NumberOf(ArgAt(args, 2))
                items       == IF Len(args) > 2 THEN SubSeq(args, 3, Len(args)) ELSE <<>>
            IN  [base EXCEPT !.hasInserted = TRUE, !.inserted = items,
                             !.insertedStart = IF startIdx.t = "prim" /\ startIdx.n >= 0
                                               THEN startIdx ELSE Prim(length),
                             !.hasDeleted = TRUE, !.deleted = result.a,
                             !.deletedStart = IF deleteCount.t = "prim" /\ deleteCount.n > 0
                                              THEN startIdx ELSE Prim(-1)]
      [] OTHER -> base

\* the operation doArrayKeys builds; length is target.length, read after the
\* method was applied
ArrayOperation(target, key, args, result, length) ==
    LET base == Op("array", target, key) IN
    CASE key = "push" ->
            [base EXCEPT !.hasInserted = TRUE, !.inserted = args,
                         !.insertedStart = Prim(length - Len(args))]
      [] key = "pop" ->
            [base EXCEPT !.hasDeleted = TRUE, !.deleted = <<result.v>>,
                         !.deletedStart = Prim(length)]
      [] key = "shift" ->
            [base EXCEPT !.hasDeleted = TRUE, !.deleted = <<result.v>>,
                         !.deletedStart = Prim(0)]
      [] key = "unshift" ->
            [base EXCEPT !.hasInserted = TRUE, !.inserted = args,
                         !.insertedStart = Prim(0)]
      [] key = "splice" ->
            LET startIdx    == NumberOf(ArgAt(args, 1))
                deleteCount == NumberOf(ArgAt(args, 2))
                items       == IF Len(args) > 2 THEN SubSeq(args, 3, Len(args)) ELSE <<>>
            IN  [base EXCEPT !.hasInserted = TRUE, !.inserted = items,
                             !.insertedStart = IF startIdx.t = "prim" /\ startIdx.n >= 0
                                               THEN startIdx ELSE Prim(length),
                             !.hasDeleted = TRUE, !.deleted = result.a,
                             !.deletedStart = IF deleteCount.t = "prim" /\ deleteCount.n > 0
                                              THEN startIdx ELSE Prim(-1)]
      [] OTHER -> base

\* doArrayKeys(target, receiver, key, args, result), pre being the array before
\* the method was applied
doArrayKeys(S, target, key, args, result, pre) ==
    queueReactionsForOperation(S, key, target, key, Undef, args, pre,
                               ArrayOperation(target, key, args, result, Len(S.arr[target])))

\* arrayHandlers.get: the value returned and the state after
arrayGet(S, target, key) ==
    LET result == ArrayReflectGet(S.arr[target], key)
    IN  [S |-> registerRunningReaction(S, target, key, "get"), ret |-> result]

\* wrapper[key] = value for an index key: arrayHandlers has no set trap, so the
\* assignment is the ordinary one on the raw array and nothing is queued
arraySet(S, target, key, value) ==
    LET a  == S.arr[target]
        i  == IndexOfKey(key)
        S1 == [S EXCEPT !.arr[target] = IF i < Len(a) THEN [a EXCEPT ![i + 1] = value]
                                        ELSE Append(a, value)]
    IN  queueReactionsForOperation(S1, "array.set", target, key, value, <<>>, a, NoOp)

\* the function arrayHandlers.get returns for a method, called with args
arrayCall(S, target, key, args) ==
    LET a == S.arr[target] IN
    IF key \in {"indexOf", "lastIndexOf"}
    THEN S
    ELSE LET n == NativeApply(key, a, args)
         IN  doArrayKeys([S EXCEPT !.arr[target] = n.after], target, key, args, n.result, a)

\* Array.prototype.indexOf.call(a, x) and lastIndexOf: strict equality, so NaN
\* is never found
NativeIndexOf(key, a, x) ==
    LET at == {i \in 1 .. Len(a) : a[i] = x /\ x # NaN}
    IN  IF at = {} THEN Prim(-1)
        ELSE IF key = "indexOf"
        THEN Prim((CHOOSE i \in at : \A j \in at : i <= j) - 1)
        ELSE Prim((CHOOSE i \in at : \A j \in at : i >= j) - 1)

\* indexOf that searches for its argument as it was passed
arrayIndexOfAsPassed(S, target, key, x) == NativeIndexOf(key, S.arr[target], x)

\* the value indexOf and lastIndexOf return: args[0] = proxyToRaw.get(args[0]) || args[0]
arrayIndexOf(S, target, key, x) ==
    NativeIndexOf(key, S.arr[target], IF isProxy(RegOf(S), x) THEN S.ptr[x.n] ELSE x)

\* wrapper[key](...args)
arrayMethod(S, target, key, args) == arrayCall(arrayGet(S, target, key).S, target, key, args)

\* the get trap the proxy of target was made with (createReactive:
\* new Proxy(obj, getHandlers(obj)))
proxyGet(S, target, key) ==
    IF getHandlers(Constructor(target)) = arrayHandlers
    THEN arrayGet(S, target, key)
    ELSE baseGet(S, target, key)

----------------------------------------------------------------------------
(* collectionHandlers: instrumentations.get and instrumentations.set of a   *)
(* Map.  A raw Map is a function from its keys to their values.             *)

\* findReactive that wraps whether or not a reaction is running
findReactiveAlways(S, x) ==
    IF isObject(x)
    THEN IF x \in DOMAIN S.rtp
         THEN [S |-> S, ret |-> Proxy(S.rtp[x])]
         ELSE LET res == reactive(RegOf(S), x)
              IN  [S |-> WithReg(S, res.reg), ret |-> res.ret]
    ELSE [S |-> S, ret |-> x]

\* findReactive(obj): the value returned and the state after
findReactive(S, x) ==
    IF hasRunningReaction(S) /\ isObject(x)
    THEN IF x \in DOMAIN S.rtp
         THEN [S |-> S, ret |-> Proxy(S.rtp[x])]
         ELSE LET res == reactive(RegOf(S), x)
              IN  [S |-> WithReg(S, res.reg), ret |-> res.ret]
    ELSE [S |-> S, ret |-> IF x \in DOMAIN S.rtp THEN Proxy(S.rtp[x]) ELSE x]

\* the values findReactive returns for the values an iterator yields in turn
\* (patchIterator, and the callback of forEach), and the state after
RECURSIVE YieldAll(_, _)
YieldAll(S, vals) ==
    IF vals = <<>> THEN [S |-> S, ret |-> <<>>]
    ELSE LET h == findReactive(S, Head(vals))
             t == YieldAll(h.S, Tail(vals))
         IN  [S |-> t.S, ret |-> <<h.ret>> \o t.ret]

\* Map.prototype.values.call(m), read to its end; the keys are visited in a
\* fixed order
MapKeyOrder == <<"k", "j">>
NativeMapValues(m) ==
    LET ks == SelectSeq(MapKeyOrder, LAMBDA k : k \in DOMAIN m)
    IN  [i \in 1 .. Len(ks) |-> m[ks[i]]]

\* Map.prototype.get.call(m, key)
NativeMapGet(m, key) == IF key \in DOMAIN m THEN m[key] ELSE Undef

instrumentations_get(S, target, key) ==
    LET S1 == registerRunningReaction(S, target, key, "get")
    IN  findReactive(S1, NativeMapGet(S1.map[target], key))

\* values(), and every value of the patched iterator
instrumentations_values(S, target) ==
    LET S1 == registerRunningReaction(S, target, "", "iterate")
    IN  YieldAll(S1, NativeMapValues(S1.map[target]))

\* get size(): the value returned and the state after
instrumentations_size(S, target) ==
    [S |-> registerRunningReaction(S, target, "", "iterate"),
     ret |-> Prim(Cardinality(DOMAIN S.map[target]))]

\* the key of an operation that names none: undefined, which no read names
UndefinedKey == "undefined"

\* clear()
instrumentations_clear(S, target) ==
    LET hadItems == DOMAIN S.map[target] # {}
        S1 == [S EXCEPT !.map[target] = EmptyMap]
        op == IF hadItems THEN Op("clear", target, UndefinedKey) ELSE NoOp
    IN  queueReactionsForOperation(S1, "Map.clear", target, UndefinedKey, Undef, <<>>,
                                   S.map[target], op)

instrumentations_set(S, target, key, value) ==
    LET hadKey   == key \in DOMAIN S.map[target]
        oldValue == NativeMapGet(S.map[target], key)
        S1 == [S EXCEPT !.map[target] = MapSet(@, key, value)]
        op == IF ~hadKey THEN Op("add", target, key)
              ELSE IF StrictNe(value, oldValue) THEN Op("set", target, key)
              ELSE NoOp
    IN  queueReactionsForOperation(S1, "Map.set", target, key, value, <<>>, S.map[target], op)

----------------------------------------------------------------------------
(* Reaction functions.  The bodies passed to observe() are application      *)
(* code; each is a short program over the wrappers its closure holds.       *)
(*   get o k      read wrapper(o).k into the local acc                      *)
(*   keys o       Object.keys(wrapper(o))                                   *)
(*   brz n        skip the next n instructions when acc is falsy            *)
(*   retinit      if (!operation) return                                    *)
(*   setacc o k   wrapper(o).k = acc                                        *)
(*   unobserve r  unobserve(r)                                              *)
(*   mapget o k   wrapper(o).get(k) into acc                                *)
(*   call r       r(): the reaction handle r called with no argument        *)
(*   throwif      if (acc) throw                                            *)
(*   trysetacc o k   try { wrapper(o).k = acc } catch { }                   *)

Ins(i, o, k, r, n) == [i |-> i, o |-> o, k |-> k, r |-> r, n |-> n]

Prog(fn) ==
    CASE fn = "reader"  -> <<Ins("get", "o", "a", "", 0)>>
      [] fn = "branch"  -> <<Ins("get", "o", "flag", "", 0), Ins("brz", "", "", "", 1),
                             Ins("get", "o", "a", "", 0)>>
      [] fn = "once"    -> <<Ins("get", "o", "a", "", 0), Ins("retinit", "", "", "", 0),
                             Ins("unobserve", "", "", "once", 0), Ins("get", "o", "b", "", 0)>>
      [] fn = "stopper" -> <<Ins("get", "o", "a", "", 0), Ins("retinit", "", "", "", 0),
                             Ins("unobserve", "", "", "reader", 0)>>
      [] fn = "mirror"  -> <<Ins("get", "o", "a", "", 0), Ins("setacc", "o", "b", "", 0)>>
      [] fn = "keys"    -> <<Ins("keys", "o", "", "", 0)>>
      [] fn = "readc"   -> <<Ins("get", "o", "c", "", 0)>>
      [] fn = "lenreader" -> <<Ins("get", "arr", "length", "", 0)>>
      [] fn = "elem0"   -> <<Ins("get", "arr", "0", "", 0)>>
      [] fn = "mapget"  -> <<Ins("mapget", "m", "k", "", 0)>>
      [] fn = "sizer"   -> <<Ins("mapsize", "m", "", "", 0)>>
      [] fn = "mapgetj" -> <<Ins("mapget", "m", "j", "", 0)>>
      [] fn = "items"   -> <<Ins("get", "arr", "length", "", 0), Ins("items", "arr", "", "", 0)>>
      [] fn = "thrower" -> <<Ins("get", "o", "a", "", 0), Ins("throwif", "", "", "", 0)>>
      [] fn = "catcher" -> <<Ins("get", "o", "b", "", 0), Ins("trysetacc", "o", "a", "", 0),
                             Ins("get", "o", "c", "", 0)>>
      [] fn = "selfw"   -> <<Ins("get", "o", "b", "", 0), Ins("get", "o", "a", "", 0),
                             Ins("setacc", "o", "b", "", 0)>>
      [] fn = "binding" -> <<Ins("get", "o", "a", "", 0), Ins("retinit", "", "", "", 0),
                             Ins("setdata", "", "", "", 0)>>
      [] fn = "outer"   -> <<Ins("get", "o", "a", "", 0), Ins("setacc", "o", "b", "", 0),
                             Ins("get", "o", "flag", "", 0)>>
      [] fn = "twice"   -> <<Ins("get", "o", "b", "", 0), Ins("get", "o", "b", "", 0)>>
      [] fn = "looper"  -> <<Ins("get", "o", "a", "", 0), Ins("retinit", "", "", "", 0),
                             Ins("unobserve", "", "", "looper", 0),
                             Ins("get", "o", "a", "", 0), Ins("setflip", "o", "a", "", 0)>>
      [] fn = "ping"    -> <<Ins("get", "o", "a", "", 0), Ins("setacc", "o", "b", "", 0)>>
      [] fn = "pong"    -> <<Ins("get", "o", "b", "", 0), Ins("setflip", "o", "a", "", 0)>>
      [] fn = "both"    -> <<Ins("keys", "o", "", "", 0), Ins("get", "o", "b", "", 0)>>
      [] fn = "recur"   -> <<Ins("get", "o", "a", "", 0), Ins("retinit", "", "", "", 0),
                             Ins("unobserve", "", "", "recur", 0),
                             Ins("call", "", "", "recur", 0)>>

\* the raw objects whose wrappers the closure of fn holds, and the reaction
\* handles it holds
Targets(fn) == {Prog(fn)[i].o : i \in 1 .. Len(Prog(fn))} \ {""}
HandlesOf(fn) == {Prog(fn)[i].r : i \in 1 .. Len(Prog(fn))} \ {"", fn}

\* the instruction the top frame is at
AtBody == ctl # <<>> /\ Last(ctl).k = "body"
Cur == Prog(Last(ctl).r)[Last(ctl).pc]
AtIns(i) == AtBody /\ Last(ctl).pc <= Len(Prog(Last(ctl).r)) /\ Cur.i = i

Advance(S, n) == SetTop(S, [Top(S) EXCEPT !.pc = @ + n])

----------------------------------------------------------------------------
(* ItemsSource: the item nodes kept for the elements of the bound array.    *)
(* _isSelected is false (its default), so no selection is bound; the        *)
(* template node is set                                                     *)

\* addItem(index, data): a new node for data, pushed on _nodeDataList
addItem(S, index, data) ==
    IF index < 0 THEN S ELSE [S EXCEPT !.nodeDataList = Append(@, data)]

\* _nodeDataList.findIndex(item => item.data === data), -1 when there is none
findIndex(list, data) ==
    LET at == {i \in 1 .. Len(list) : list[i] = data /\ data # NaN}
    IN  IF at = {} THEN -1 ELSE (CHOOSE i \in at : \A j \in at : i <= j) - 1

\* deleteItem(data): the first node whose data is data is removed
deleteItem(S, data) ==
    LET index == findIndex(S.nodeDataList, data) IN
    IF index < 0 THEN S
    ELSE [S EXCEPT !.nodeDataList =
             SubSeq(@, 1, index) \o SubSeq(@, index + 2, Len(@))]

\* for (i = 0; i < operation.deleted.length; i++) this.deleteItem(operation.deleted[i])
RECURSIVE deleteItems(_, _)
deleteItems(S, deleted) ==
    IF deleted = <<>> THEN S ELSE deleteItems(deleteItem(S, Head(deleted)), Tail(deleted))

\* for (i = 0; i < operation.inserted.length; i++)
\*     this.addItem(operation.insertedStart + i, operation.inserted[i])
RECURSIVE addItems(_, _, _)
addItems(S, index, inserted) ==
    IF inserted = <<>> THEN S
    ELSE addItems(addItem(S, index, Head(inserted)), index + 1, Tail(inserted))

\* initItems(this._data): the list is emptied; dataList.length is read through
\* the wrapper and, when it is positive, dataList.forEach: the callback adds a
\* node for each element of the raw array, then the wrapper's forEach
\* publishes its operation
initItems(S, target) ==
    LET S1 == [S EXCEPT !.nodeDataList = <<>>]
        S2 == arrayGet(NoteRead(S1, target, "length"), target, "length").S
    IN  IF Len(S2.arr[target]) > 0
        THEN arrayMethod(addItems(NoteRead(S2, target, "forEach"), 0, S2.arr[target]),
                         target, "forEach", <<>>)
        ELSE S2

\* the body of _itemsReaction after let length = this._data.length: the first
\* run (no operation) builds the items; a later run removes the nodes of
\* operation.deleted when deletedStart >= 0, then adds nodes for
\* operation.inserted when insertedStart >= 0
itemsReaction(S, target, operation) ==
    IF operation.type = "none" THEN initItems(S, target)
    ELSE LET ds == operation.deletedStart
             ins == operation.insertedStart
             S1 == IF ds.t = "prim" /\ ds.n >= 0 THEN deleteItems(S, operation.deleted) ELSE S
         IN  IF ins.t = "prim" /\ ins.n >= 0 THEN addItems(S1, ins.n, operation.inserted) ELSE S1

----------------------------------------------------------------------------
(* Steps of a reaction body *)

BodyGet ==
    /\ AtIns("get")
    /\ LET res == proxyGet(NoteRead(St, Cur.o, Cur.k), Cur.o, Cur.k)
       IN  Commit(Advance(SetTop(res.S, [Top(res.S) EXCEPT !.acc = res.ret]), 1))

BodyMapGet ==
    /\ AtIns("mapget")
    /\ LET res == instrumentations_get(NoteRead(St, Cur.o, Cur.k), Cur.o, Cur.k)
       IN  Commit(Advance(SetTop(res.S, [Top(res.S) EXCEPT !.acc = res.ret]), 1))

BodyMapSize ==
    /\ AtIns("mapsize")
    /\ LET res == instrumentations_size(NoteRead(St, Cur.o, ITERATION_KEY), Cur.o)
       IN  Commit(Advance(SetTop(res.S, [Top(res.S) EXCEPT !.acc = res.ret]), 1))

BodyKeys ==
    /\ AtIns("keys")
    /\ Commit(Advance(baseOwnKeys(NoteRead(St, Cur.o, ITERATION_KEY), Cur.o), 1))

BodyBrz ==
    /\ AtIns("brz")
    /\ Commit(Advance(St, IF Truthy(Last(ctl).acc) THEN 1 ELSE 1 + Cur.n))

BodyRetInit ==
    /\ AtIns("retinit")
    /\ Commit(Advance(St, IF Last(ctl).arg.type = "none" THEN Len(Prog(Last(ctl).r)) ELSE 1))

BodySetAcc ==
    /\ AtIns("setacc")
    /\ Commit(baseSet(Advance(St, 1), Cur.o, Cur.k, Last(ctl).acc))

\* wrapper(o).k = acc ? 0 : 1, a value other than the one read
BodySetFlip ==
    /\ AtIns("setflip")
    /\ Commit(baseSet(Advance(St, 1), Cur.o, Cur.k,
                      IF Last(ctl).acc = Prim(0) THEN Prim(1) ELSE Prim(0)))

BodyUnobserve ==
    /\ AtIns("unobserve")
    /\ Commit(unobserve(Advance(St, 1), Cur.r))

BodyCall ==
    /\ AtIns("call")
    /\ Commit(runReactionWrap(Advance(St, 1), Cur.r, NoOp, "call"))

BodyThrowIf ==
    /\ AtIns("throwif")
    /\ Commit(IF Truthy(Last(ctl).acc) THEN BodyAbort(St) ELSE Advance(St, 1))

BodyTrySetAcc ==
    /\ AtIns("trysetacc")
    /\ Commit(baseSet(Advance(St, 1), Cur.o, Cur.k, Last(ctl).acc))

\* the rest of the body of _itemsReaction
BodyItems ==
    /\ AtIns("items")
    /\ Commit(itemsReaction(Advance(St, 1), Cur.o, Last(ctl).arg))

\* this.setDataValue(data) in the reaction of a Binding
BodySetData ==
    /\ AtIns("setdata")
    /\ Commit(setDataValue(Advance(St, 1), Last(ctl).acc))

BodyReturn ==
    /\ AtBody
    /\ Last(ctl).pc > Len(Prog(Last(ctl).r))
    /\ Commit(BodyEnd(St))

----------------------------------------------------------------------------
(* Steps of the engine *)

HandlerInvoke ==
    /\ ctl # <<>> /\ Last(ctl).k = "handler" /\ Last(ctl).queue # <<>>
    /\ Commit(InvokeNext(St))

HandlerReturn ==
    /\ ctl # <<>> /\ Last(ctl).k = "handler" /\ Last(ctl).queue = <<>>
    /\ Commit(Pop(St))

ObserveCall ==
    /\ ctl # <<>> /\ Last(ctl).k = "observe" /\ Last(ctl).pc = 1
    /\ Commit(observeCall(St))

ObserveReturn ==
    /\ ctl # <<>> /\ Last(ctl).k = "observe" /\ Last(ctl).pc = 2
    /\ Commit(observeReturn(St))

\* an exception is in flight above the frame i of the stack
Thrown == Len(ctl) >= 1 /\ Last(ctl).k = "exc"

\* the call in progress in body frame f is inside a try block
Catches(f) == f.k = "body" /\ f.pc > 1 /\ Prog(f.r)[f.pc - 1].i = "trysetacc"

\* the exception reaches the frame below it, and a trap swallows it and goes on
\* with the reactions still queued
UnwindIsolated ==
    /\ Thrown /\ Len(ctl) >= 2
    /\ LET below == Pop(St) IN
       IF Catches(Top(below))
       THEN Commit(SetTop(below, [Top(below) EXCEPT !.caught = @ + 1]))
       ELSE IF Top(below).k = "body" THEN Commit(BodyAbort(below))
       ELSE IF Top(below).k = "handler" THEN Commit(below)
       ELSE Commit(Raise(below))

\* the exception reaches the frame below it: a body that made the call inside
\* try catches it and goes on; any other body passes it on through the finally
\* of runReactionWrap; forEach, the trap and observe pass it on
Unwind ==
    /\ Thrown /\ Len(ctl) >= 2
    /\ LET below == Pop(St) IN
       IF Catches(Top(below))
       THEN Commit(SetTop(below, [Top(below) EXCEPT !.caught = @ + 1]))
       ELSE IF Top(below).k = "body" THEN Commit(BodyAbort(below))
       ELSE Commit(Raise(below))

----------------------------------------------------------------------------
(* The application (top level): acts when no call is in progress *)

\* the exception reaches the application, which catches it
AppCatch ==
    /\ Thrown /\ Len(ctl) = 1
    /\ Commit(Pop(St))

\* the wrapper of a raw object, when it has one
Wrapped(id) == Raw(id) \in DOMAIN rawToProxy

AppReactive(x) ==
    /\ ctl = <<>>
    /\ x.t = "proxy" => x.n \in DOMAIN proxyToRaw
    /\ Commit(WithReg(St, reactive(Reg, x).reg))

\* reactive(x) called by the application, with what it returned
AppReactiveRet(x) ==
    /\ ctl = <<>>
    /\ x.t = "proxy" => x.n \in DOMAIN proxyToRaw
    /\ LET res == reactive(Reg, x)
       IN  Commit([WithReg(St, res.reg) EXCEPT !.returned =
                      [NoCall EXCEPT !.fn = "reactive", !.arg = x, !.val = res.ret]])

\* raw(x) called by the application
AppRaw(x) ==
    /\ ctl = <<>>
    /\ x.t = "proxy" => x.n \in DOMAIN proxyToRaw
    /\ Commit([St EXCEPT !.returned = [NoCall EXCEPT !.fn = "raw", !.arg = x,
                                                    !.val = raw(Reg, x)]])

AppGet(id, key) ==
    /\ ctl = <<>>
    /\ Wrapped(id)
    /\ Commit(proxyGet(St, id, key).S)

AppSet(id, key, value) ==
    /\ ctl = <<>>
    /\ Wrapped(id)
    /\ value.t = "proxy" => value.n \in DOMAIN proxyToRaw
    /\ Commit(baseSet(St, id, key, value))

AppDelete(id, key) ==
    /\ ctl = <<>>
    /\ Wrapped(id)
    /\ Commit(baseDeleteProperty(St, id, key))

\* wrapper(id)[key](...args); the array stays within MaxLen
AppArrayCall(id, key, args) ==
    /\ ctl = <<>>
    /\ Wrapped(id)
    /\ Len(NativeApply(key, arr[id], args).after) <= MaxLen
    /\ Commit(arrayMethod(St, id, key, args))

\* wrapper(id).indexOf(x) and wrapper(id).lastIndexOf(x), with what they return
AppArrayIndexOf(id, key, x) ==
    /\ ctl = <<>>
    /\ Wrapped(id)
    /\ x.t = "proxy" => x.n \in DOMAIN proxyToRaw
    /\ LET g == arrayGet(St, id, key)
       IN  Commit([arrayCall(g.S, id, key, <<x>>) EXCEPT !.returned =
                      [NoCall EXCEPT !.fn = key, !.arg = x, !.was = arr[id],
                                     !.val = arrayIndexOf(g.S, id, key, x)]])

\* wrapper(id)[key] = value for an index within the array or next to its end
AppArraySet(id, key, value) ==
    /\ ctl = <<>>
    /\ Wrapped(id)
    /\ IsIndexKey(key) /\ IndexOfKey(key) <= Len(arr[id]) /\ IndexOfKey(key) < MaxLen
    /\ Commit(arraySet(St, id, key, value))

AppMapGet(id, key) ==
    /\ ctl = <<>>
    /\ Wrapped(id)
    /\ LET res == instrumentations_get(St, id, key)
           was == NativeMapGet(map[id], key)
       IN  Commit([res.S EXCEPT !.returned =
                      [NoCall EXCEPT !.fn = "Map.get", !.val = res.ret, !.was = <<was>>,
                                     !.had = {x \in {was} : x \in DOMAIN rawToProxy}]])

\* for (const v of wrapper(id).values()) ...
AppMapValues(id) ==
    /\ ctl = <<>>
    /\ Wrapped(id)
    /\ LET res == instrumentations_values(St, id)
           was == NativeMapValues(map[id])
       IN  Commit([res.S EXCEPT !.returned =
                      [NoCall EXCEPT !.fn = "Map.values", !.vals = res.ret, !.was = was,
                                     !.had = Range(was) \cap DOMAIN rawToProxy]])

AppMapSet(id, key, value) ==
    /\ ctl = <<>>
    /\ Wrapped(id)
    /\ Commit(instrumentations_set(St, id, key, value))

AppMapClear(id) ==
    /\ ctl = <<>>
    /\ Wrapped(id)
    /\ Commit(instrumentations_clear(St, id))

\* the Binding is loaded in the given mode
AppLoad(mode) ==
    /\ ctl = <<>>
    /\ binding.mode = ""
    /\ Wrapped("o")
    /\ Cardinality(reactions) < MaxReactions
    /\ LET res == baseGet(St, "o", "a")
       IN  Commit(onUpdateData(res.S, mode, res.ret))

LoadReturn ==
    /\ ctl # <<>> /\ Last(ctl).k = "load"
    /\ Commit(onUpdateDataEnd(St))

\* the application gives the source o.a of the loaded Binding another value
SourceChange(value) ==
    /\ ctl = <<>>
    /\ binding.loaded
    /\ binding.changes < MaxChanges
    /\ "a" \in DOMAIN obj["o"] /\ obj["o"]["a"] # value
    /\ Commit(baseSet([St EXCEPT !.binding.changes = @ + 1], "o", "a", value))

AppObserve(fn) ==
    /\ ctl = <<>>
    /\ fn \notin reactions
    /\ Cardinality(reactions) < MaxReactions
    /\ \A id \in Targets(fn) : Wrapped(id)
    /\ HandlesOf(fn) \subseteq handles
    /\ Commit(observe(St, fn))

AppUnobserve(r) ==
    /\ ctl = <<>>
    /\ r \in handles
    /\ Commit(unobserve(St, r))

\* the application calls a reaction handle itself
AppCall(r) ==
    /\ ctl = <<>>
    /\ r \in handles
    /\ Commit(runReactionWrap(St, r, NoOp, "call"))

----------------------------------------------------------------------------
(* The application's objects: o = {a: 0, flag: true, c: n}, n = {}, an       *)
(* array, a Map and a Date, none wrapped yet                                 *)

Init ==
    /\ rawToProxy = EmptyMap
    /\ proxyToRaw = EmptyMap
    /\ connectionStore = EmptyMap
    /\ obj = [id \in PlainIds |->
                IF id = "o" THEN [k \in {"a", "flag", "c"} |->
                                    CASE k = "a" -> Prim(0) [] k = "flag" -> Prim(1)
                                      [] k = "c" -> Raw("n")]
                ELSE EmptyMap]
    /\ arr = [id \in ArrIds |-> <<>>]
    /\ map = [id \in MapIds |-> EmptyMap]
    /\ reactions = {}
    /\ unobserved = EmptyMap
    /\ cleaners = EmptyMap
    /\ reactionStack = <<>>
    /\ ctl = <<>>
    /\ handles = {}
    /\ reads = EmptyMap
    /\ returned = NoCall
    /\ binding = NoBinding
    /\ nodeDataList = <<>>

Engine ==
    \/ HandlerInvoke
    \/ HandlerReturn
    \/ ObserveCall
    \/ ObserveReturn
    \/ BodyReturn

----------------------------------------------------------------------------
(* Spec: reads, writes and deletes of the keys a, b, flag of o, with         *)
(* reactions that read a key, branch on flag, enumerate the keys, and write  *)

Fns == {"reader", "branch", "mirror", "keys"}

Next ==
    \/ Engine
    \/ BodyGet
    \/ BodyKeys
    \/ BodyBrz
    \/ BodySetAcc
    \/ AppReactive(Raw("o"))
    \/ \E key \in {"a", "b", "flag"} : \E value \in PrimVals : AppSet("o", key, value)
    \/ \E key \in {"a", "b"} : AppDelete("o", key)
    \/ \E fn \in Fns : AppObserve(fn)

Spec == Init /\ [][Next]_vars

----------------------------------------------------------------------------
(* SpecStop: unobserve from the application, from the reaction's own body    *)
(* and from another reaction's body, and direct calls of a reaction handle   *)

FnsStop == {"reader", "once", "stopper", "mirror"}

NextStop ==
    \/ Engine
    \/ BodyGet
    \/ BodyRetInit
    \/ BodyUnobserve
    \/ BodySetAcc
    \/ AppReactive(Raw("o"))
    \/ \E key \in {"a", "b"} : \E value \in PrimVals : AppSet("o", key, value)
    \/ \E fn \in FnsStop : AppObserve(fn)
    \/ \E r \in FnsStop : AppUnobserve(r)
    \/ \E r \in FnsStop : AppCall(r)

SpecStop == Init /\ [][NextStop]_vars

----------------------------------------------------------------------------
(* SpecReg: the registry.  reactive() on raw objects of every constructor   *)
(* and on wrappers, the nested object n under o.c wrapped on first read, and *)
(* writes of raw objects, wrappers, primitives and undefined to o.c          *)

FnsReg == {"readc"}

RegVals == {Raw("n"), Undef, NaN} \cup PrimVals \cup {Proxy(p) : p \in DOMAIN proxyToRaw}

NextReg ==
    \/ Engine
    \/ BodyGet
    \/ \E x \in {Raw(id) : id \in RawIds} \cup {Proxy(p) : p \in DOMAIN proxyToRaw} :
          AppReactive(x)
    \/ AppGet("o", "c")
    \/ \E value \in RegVals : AppSet("o", "c", value)
    \/ AppDelete("o", "c")
    \/ \E fn \in FnsReg : AppObserve(fn)

SpecReg == Init /\ [][NextReg]_vars

----------------------------------------------------------------------------
(* SpecArr: the methods of a wrapped array called by the application and    *)
(* assignments to its elements, with reactions that read its length and its *)
(* first element                                                            *)

FnsArr == {"lenreader", "elem0"}

\* the argument lists of push and unshift: up to two items
ItemLists == {<<>>} \cup {<<x>> : x \in PrimVals} \cup {<<x, y>> : x, y \in PrimVals}

\* the argument lists of splice: (), (start), (start, deleteCount) and
\* (start, deleteCount, ...items)
SpliceStarts == {Prim(n) : n \in -1 .. MaxLen} \cup {Undef}
SpliceCounts == {Prim(n) : n \in 0 .. 2}
SpliceArgs ==
    {<<>>} \cup {<<s>> : s \in SpliceStarts}
           \cup {<<s, d>> \o items : s \in SpliceStarts, d \in SpliceCounts, items \in ItemLists}

NextArr ==
    \/ Engine
    \/ BodyGet
    \/ AppReactive(Raw("arr"))
    \/ \E key \in {"length", "0"} : AppGet("arr", key)
    \/ \E key \in {"0", "1"} : \E value \in PrimVals : AppArraySet("arr", key, value)
    \/ \E key \in {"push", "unshift"} : \E args \in ItemLists : AppArrayCall("arr", key, args)
    \/ \E key \in {"pop", "shift"} : AppArrayCall("arr", key, <<>>)
    \/ \E args \in SpliceArgs : AppArrayCall("arr", "splice", args)
    \/ \E fn \in FnsArr : AppObserve(fn)

SpecArr == Init /\ [][NextArr]_vars

----------------------------------------------------------------------------
(* SpecMap: get and set of the keys k and j of a wrapped Map, with one      *)
(* reaction per key that reads it                                           *)

FnsMap == {"mapget", "mapgetj"}

MapVals == PrimVals \cup {NaN, Raw("n")}

NextMap ==
    \/ Engine
    \/ BodyMapGet
    \/ AppReactive(Raw("m"))
    \/ \E key \in {"k", "j"} : AppMapGet("m", key)
    \/ \E key \in {"k", "j"} : \E value \in MapVals : AppMapSet("m", key, value)
    \/ \E fn \in FnsMap : AppObserve(fn)

SpecMap == Init /\ [][NextMap]_vars

----------------------------------------------------------------------------
(* SpecReent: reactions invoked while they are on the reaction stack: one   *)
(* that writes a key it has read, and one that stops itself and then calls  *)
(* its own handle                                                           *)

FnsReent == {"selfw", "recur"}

NextReent ==
    \/ Engine
    \/ BodyGet
    \/ BodyRetInit
    \/ BodyUnobserve
    \/ BodySetAcc
    \/ BodyCall
    \/ AppReactive(Raw("o"))
    \/ \E key \in {"a", "b"} : \E value \in PrimVals : AppSet("o", key, value)
    \/ \E fn \in FnsReent : AppObserve(fn)
    \/ \E r \in FnsReent : AppUnobserve(r)

SpecReent == Init /\ [][NextReent]_vars

----------------------------------------------------------------------------
(* SpecExc: a reaction that throws when o.a is truthy, one that writes o.a  *)
(* inside try/catch and reads o.c afterwards, and one that reads o.a; the   *)
(* application stops them and calls their handles                           *)

FnsExc == {"thrower", "catcher", "reader"}

NextExc ==
    \/ Engine
    \/ BodyGet
    \/ BodyThrowIf
    \/ BodyTrySetAcc
    \/ Unwind
    \/ AppCatch
    \/ AppReactive(Raw("o"))
    \/ \E key \in {"a", "b"} : \E value \in PrimVals : AppSet("o", key, value)
    \/ \E fn \in FnsExc : AppObserve(fn)
    \/ \E r \in FnsExc : AppUnobserve(r)
    \/ \E r \in FnsExc : AppCall(r)

SpecExc == Init /\ [][NextExc]_vars

----------------------------------------------------------------------------
(* SpecNav: the nested object n stored under o.c, as an element of the      *)
(* array and as an entry of the Map, raw or as its wrapper, and read back   *)
(* through the three kinds of wrapper inside and outside reactions; the     *)
(* array holds at most one element                                          *)

FnsNav == {"readc", "elem0", "mapget"}

\* the values stored: a primitive, n, and the wrapper of n once it has one
NavVals == {Prim(0), Raw("n")} \cup {Proxy(rawToProxy[x]) : x \in {Raw("n")} \cap DOMAIN rawToProxy}

NextNav ==
    \/ Engine
    \/ BodyGet
    \/ BodyMapGet
    \/ \E id \in {"o", "arr", "m"} : AppReactive(Raw(id))
    \/ AppGet("o", "c")
    \/ AppGet("arr", "0")
    \/ AppMapGet("m", "k")
    \/ AppMapValues("m")
    \/ \E value \in NavVals : AppSet("o", "c", value)
    \/ \E value \in NavVals : AppArraySet("arr", "0", value)
    \/ \E value \in NavVals : arr["arr"] = <<>> /\ AppArrayCall("arr", "push", <<value>>)
    \/ AppArrayCall("arr", "pop", <<>>)
    \/ \E value \in NavVals : AppMapSet("m", "k", value)
    \/ \E fn \in FnsNav : AppObserve(fn)

SpecNav == Init /\ [][NextNav]_vars

----------------------------------------------------------------------------
(* SpecBind: a Binding component loaded on o.a in mode OneWay or OneTime,   *)
(* changes of o.a and writes of o.b, next to a reaction that reads o.a      *)

FnsBind == {"reader"}

NextBind ==
    \/ Engine
    \/ BodyGet
    \/ BodyRetInit
    \/ BodySetData
    \/ AppReactive(Raw("o"))
    \/ \E mode \in BindingModes : AppLoad(mode)
    \/ LoadReturn
    \/ \E value \in PrimVals : SourceChange(value)
    \/ \E value \in PrimVals : AppSet("o", "b", value)
    \/ \E fn \in FnsBind : AppObserve(fn)

SpecBind == Init /\ [][NextBind]_vars

----------------------------------------------------------------------------
(* SpecOps: operations of every type that reaches getReactionsForOperation: *)
(* set, add and delete on the plain object o and array methods on arr, with *)
(* reactions that read o.a, enumerate the keys of o and read arr.length     *)

FnsOps == {"reader", "keys", "lenreader"}

NextOps ==
    \/ Engine
    \/ BodyGet
    \/ BodyKeys
    \/ \E id \in {"o", "arr"} : AppReactive(Raw(id))
    \/ \E key \in {"a", "b"} : \E value \in PrimVals : AppSet("o", key, value)
    \/ \E key \in {"a", "b"} : AppDelete("o", key)
    \/ \E value \in PrimVals : AppArrayCall("arr", "push", <<value>>)
    \/ AppArrayCall("arr", "pop", <<>>)
    \/ \E fn \in FnsOps : AppObserve(fn)

SpecOps == Init /\ [][NextOps]_vars

----------------------------------------------------------------------------
(* SpecNest: a reaction that reads o.a, writes it to o.b and then reads     *)
(* o.flag, and a reaction that reads o.b twice and so runs nested in the    *)
(* first one's write                                                        *)

FnsNest == {"outer", "twice"}

NextNest ==
    \/ Engine
    \/ BodyGet
    \/ BodySetAcc
    \/ AppReactive(Raw("o"))
    \/ \E key \in {"a", "b", "flag"} : \E value \in PrimVals : AppSet("o", key, value)
    \/ \E fn \in FnsNest : AppObserve(fn)

SpecNest == Init /\ [][NextNest]_vars

----------------------------------------------------------------------------
(* SpecClear: set and clear on a wrapped Map, with a reaction that reads    *)
(* the key k, one that reads the key j and one that reads the size          *)

FnsClear == {"mapget", "mapgetj", "sizer"}

NextClear ==
    \/ Engine
    \/ BodyMapGet
    \/ BodyMapSize
    \/ AppReactive(Raw("m"))
    \/ \E key \in {"k", "j"} : \E value \in PrimVals : AppMapSet("m", key, value)
    \/ AppMapClear("m")
    \/ \E fn \in FnsClear : AppObserve(fn)

SpecClear == Init /\ [][NextClear]_vars

----------------------------------------------------------------------------
(* SpecCalls: methods of a wrapped array that do not change it (join,       *)
(* forEach, indexOf, lastIndexOf) next to push, on an array of primitives,  *)
(* the raw object n and the wrapper of n, with a reaction that reads length *)

FnsCalls == {"lenreader"}

CallVals == {Prim(0), Raw("n")} \cup {Proxy(p) : p \in {q \in DOMAIN proxyToRaw :
                                                        proxyToRaw[q] = Raw("n")}}

NextCalls ==
    \/ Engine
    \/ BodyGet
    \/ \E id \in {"arr", "n"} : AppReactive(Raw(id))
    \/ \E value \in CallVals : AppArrayCall("arr", "push", <<value>>)
    \/ \E key \in {"join", "forEach"} : AppArrayCall("arr", key, <<>>)
    \/ \E key \in {"indexOf", "lastIndexOf"} : \E x \in CallVals :
          AppArrayIndexOf("arr", key, x)
    \/ \E fn \in FnsCalls : AppObserve(fn)

SpecCalls == Init /\ [][NextCalls]_vars

----------------------------------------------------------------------------
(* SpecCascade: reactions whose writes trigger reactions: ping and pong     *)
(* write the key the other one reads, and looper stops itself, reads o.a    *)
(* and writes another value to it.  The call stack of the engine holds      *)
(* MaxDepth frames: a call that needs one more throws (RangeError), as a    *)
(* JavaScript engine does; the application catches it.                      *)

FnsCascade == {"looper", "ping", "pong"}

\* reaction(operation) in the forEach of queueReactionsForOperation, when the
\* call stack is full: the call throws
StackOverflow ==
    /\ Len(ctl) >= MaxDepth /\ Last(ctl).k = "handler" /\ Last(ctl).queue # <<>>
    /\ Commit(Raise(St))

NextCascade ==
    \/ Len(ctl) < MaxDepth /\ HandlerInvoke
    \/ StackOverflow
    \/ Unwind
    \/ AppCatch
    \/ HandlerReturn
    \/ ObserveCall
    \/ ObserveReturn
    \/ BodyReturn
    \/ BodyGet
    \/ BodyRetInit
    \/ BodyUnobserve
    \/ BodySetAcc
    \/ BodySetFlip
    \/ AppReactive(Raw("o"))
    \/ \E key \in {"a", "b"} : \E value \in PrimVals : AppSet("o", key, value)
    \/ \E fn \in FnsCascade : AppObserve(fn)

\* the steps of the calls in progress
CallStep ==
    \/ Len(ctl) < MaxDepth /\ HandlerInvoke
    \/ StackOverflow
    \/ Unwind
    \/ AppCatch
    \/ HandlerReturn
    \/ ObserveCall
    \/ ObserveReturn
    \/ BodyReturn
    \/ BodyGet
    \/ BodyRetInit
    \/ BodyUnobserve
    \/ BodySetAcc
    \/ BodySetFlip

\* JavaScript runs a call to its end: a call in progress always takes its
\* next step
SpecCascade == Init /\ [][NextCascade]_vars /\ WF_vars(CallStep)

----------------------------------------------------------------------------
(* SpecOnce: writes and deletes of the keys a and b of o, with a reaction   *)
(* that enumerates the keys of o and reads o.b, and so is in the set of b   *)
(* and in the set of the structural key, and a reaction that reads o.a      *)

FnsOnce == {"both", "reader"}

NextOnce ==
    \/ Engine
    \/ BodyGet
    \/ BodyKeys
    \/ AppReactive(Raw("o"))
    \/ \E key \in {"a", "b"} : \E value \in PrimVals : AppSet("o", key, value)
    \/ \E key \in {"a", "b"} : AppDelete("o", key)
    \/ \E fn \in FnsOnce : AppObserve(fn)

SpecOnce == Init /\ [][NextOnce]_vars

----------------------------------------------------------------------------
(* SpecOutside: reads made while no reaction is running: by the application *)
(* through the wrapper of o, of a primitive and of the nested object n, and  *)
(* by the body of a stopped reaction whose handle the application calls      *)

FnsOutside == {"readc", "reader"}

NextOutside ==
    \/ Engine
    \/ BodyGet
    \/ AppReactive(Raw("o"))
    \/ \E key \in {"a", "c"} : AppGet("o", key)
    \/ \E value \in PrimVals : AppSet("o", "a", value)
    \/ \E fn \in FnsOutside : AppObserve(fn)
    \/ \E r \in FnsOutside : AppUnobserve(r)
    \/ \E r \in FnsOutside : AppCall(r)

SpecOutside == Init /\ [][NextOutside]_vars

----------------------------------------------------------------------------
(* SpecItems: an ItemsSource bound to the wrapped array, and the            *)
(* application calling push, pop, shift, unshift and splice on the wrapper; *)
(* calls that can add items are made while there are at most MaxLen nodes   *)

\* onUpdateDataInternal(), called once: this._data is the wrapped array and
\* there is no earlier _itemsReaction to stop
onUpdateDataInternal ==
    /\ ctl = <<>>
    /\ Wrapped("arr")
    /\ "items" \notin reactions
    /\ Commit(observe(St, "items"))

NextItems ==
    \/ Engine
    \/ BodyGet
    \/ BodyItems
    \/ AppReactive(Raw("arr"))
    \/ onUpdateDataInternal
    \/ /\ Len(nodeDataList) <= MaxLen
       /\ \E key \in {"push", "unshift"} : \E args \in ItemLists : AppArrayCall("arr", key, args)
    \/ \E key \in {"pop", "shift"} : AppArrayCall("arr", key, <<>>)
    \/ \E args \in SpliceArgs : Len(nodeDataList) <= MaxLen /\ AppArrayCall("arr", "splice", args)

SpecItems == Init /\ [][NextItems]_vars

----------------------------------------------------------------------------
(* SpecRaw: raw() called with raw objects of every constructor, wrapped or  *)
(* not, with primitives, undefined and NaN, and with wrappers               *)

RawArgs == {Raw(id) : id \in RawIds} \cup PrimVals \cup {Undef, NaN}
               \cup {Proxy(p) : p \in DOMAIN proxyToRaw}

NextRaw ==
    \/ \E id \in RawIds : AppReactiveRet(Raw(id))
    \/ AppGet("o", "c")
    \/ \E x \in RawArgs : AppRaw(x)

SpecRaw == Init /\ [][NextRaw]_vars

----------------------------------------------------------------------------
(* Properties.  A handler frame f records the trap's call (what, target,    *)
(* key, wval), the raw object before it (pre), and the reactions that were  *)
(* stopped (stoppedAt), running (stackAt) and known with the reads of their *)
(* latest run (readsAt) when the trap was called; f.snap is the set of      *)
(* reactions the trap collected and f.started those whose body it has run.  *)

Handlers == {i \in 1 .. Len(ctl) : ctl[i].k = "handler"}
Bodies   == {i \in 1 .. Len(ctl) : ctl[i].k = "body"}

Count(seq, x) == Cardinality({i \in 1 .. Len(seq) : seq[i] = x})

\* the reactions that were created, not stopped and not running when f was called
IdleLive(f) == DOMAIN f.readsAt \ (f.stackAt \cup f.stoppedAt)

\* the write of f added the key, or replaced its value by another one
Added(f)   == f.key \notin DOMAIN f.pre
Changed(f) == Added(f) \/ f.pre[f.key] # f.wval

\* the (raw, key) sets of the store that hold reaction r
DepsOf(r) ==
    UNION {{<<id, key>> : key \in {k \in DOMAIN connectionStore[Raw(id)] :
                                      r \in Range(connectionStore[Raw(id)][k])}} :
           id \in {x \in RawIds : Raw(x) \in DOMAIN connectionStore}}

\* C1: a write through the wrapper of a plain object that changes key k runs
\* every idle live reaction whose last run read k exactly once, and runs no
\* idle live reaction that read neither k nor (for a new key) the key set
C1_ReadTracking ==
    \A i \in Handlers :
        LET f == ctl[i] IN
        (f.what = "set" /\ f.wval.t # "proxy") =>
            \A r \in IdleLive(f) :
                LET readKey  == <<f.target, f.key>> \in f.readsAt[r]
                    readIter == <<f.target, ITERATION_KEY>> \in f.readsAt[r]
                IN  /\ (Changed(f) /\ readKey) =>
                          /\ Count(f.snap, r) = 1
                          /\ Count(f.started, r) = IF r \in Range(f.queue) THEN 0 ELSE 1
                    /\ (~readKey /\ ~(Added(f) /\ readIter)) =>
                          /\ r \notin Range(f.snap)
                          /\ r \notin Range(f.started)

\* a write that changes the existing key a of o has called every reaction it
\* collected: the idle live reaction whose last run read o.a, once
C1_Witness ==
    \E i \in Handlers :
        LET f == ctl[i] IN
        /\ i = Len(ctl) /\ f.queue = <<>>
        /\ f.what = "set" /\ f.target = "o" /\ f.key = "a"
        /\ ~Added(f) /\ Changed(f)
        /\ "reader" \in IdleLive(f) /\ <<"o", "a">> \in f.readsAt["reader"]
        /\ f.started = <<"reader">>

C7_AddSetDelete ==
    /\ \A i \in Handlers :
          LET f == ctl[i] IN
          /\ (f.what = "set" /\ f.wval.t # "proxy") =>
                /\ Added(f) => f.op.type = "add" /\ f.op.key = f.key /\ f.op.target = f.target
                /\ (~Added(f) /\ Changed(f) /\ f.wval # NaN) =>
                      /\ f.op.type = "set" /\ f.op.key = f.key /\ f.op.target = f.target
                      /\ f.op.oldValue = f.pre[f.key] /\ f.op.value = f.wval
          /\ f.what = "deleteProperty" =>
                /\ f.key \in DOMAIN f.pre =>
                      f.op.type = "delete" /\ f.op.key = f.key /\ f.op.target = f.target
                /\ f.key \notin DOMAIN f.pre =>
                      f.snap = <<>> /\ f.started = <<>>
    /\ \A j \in Bodies :
          ctl[j].cause = "trigger" =>
              /\ j > 1 /\ ctl[j - 1].k = "handler"
              /\ ctl[j].arg = ctl[j - 1].op
              /\ ctl[j].arg.type \in {"add", "set", "delete", "clear", "array"}

\* o.b = v for an absent key b is running the reaction that enumerated the
\* keys of o, which received type add
C7_Witness ==
    \E j \in Bodies :
        /\ ctl[j].cause = "trigger" /\ ctl[j].r = "keys"
        /\ ctl[j].arg.type = "add" /\ ctl[j].arg.key = "b"
        /\ ctl[j - 1].what = "set" /\ Added(ctl[j - 1])

\* C3: once unobserve(r) has been called, no write or delete made afterwards
\* collects r, and a direct call of a stopped r runs its body without putting
\* it on the reaction stack
C3_StopSemantics ==
    /\ \A i \in Handlers : ctl[i].stoppedAt \cap Range(ctl[i].snap) = {}
    /\ \A j \in Bodies :
          (ctl[j].cause = "call" /\ unobserved[ctl[j].r]) => ~ctl[j].pushed

\* C10: observe calls the reaction once before it returns, with no operation,
\* and that run registers the reads of fn; a run made by a trap receives the
\* operation of that trap
C10_ObserveRunsOnce ==
    /\ \A i \in 1 .. Len(ctl) :
          ctl[i].k = "observe" =>
              /\ ctl[i].calls = IF ctl[i].pc = 1 THEN 0 ELSE 1
              /\ ctl[i].r \notin handles
              /\ (i = Len(ctl) /\ ctl[i].pc = 2) => DepsOf(ctl[i].r) # {}
              /\ \A j \in Bodies :
                    (j > i /\ ctl[j].r = ctl[i].r) => j = i + 1 /\ ctl[j].cause = "observe"
    /\ \A j \in Bodies :
          /\ ctl[j].cause = "observe" =>
                /\ ctl[j].arg = NoOp
                /\ j > 1 /\ ctl[j - 1].k = "observe" /\ ctl[j - 1].r = ctl[j].r
          /\ ctl[j].cause = "trigger" =>
                /\ j > 1 /\ ctl[j - 1].k = "handler"
                /\ ctl[j].arg = ctl[j - 1].op
                /\ ctl[j].arg.type # "none"
                /\ ctl[j].r \in Range(ctl[j - 1].snap)

\* observe(once) has returned, and a later write of o.a runs once with the
\* operation of that write: its body is past `if (!operation) return`
C10_Witness ==
    \E j \in Bodies :
        /\ ctl[j].r = "once" /\ "once" \in handles
        /\ ctl[j].cause = "trigger" /\ ctl[j].arg.type = "set" /\ ctl[j].arg.key = "a"
        /\ ctl[j].pc = 3

\* the raw objects of the data model: plain objects, arrays and Maps
Instrumented == {id \in RawIds : shouldInstrument(Constructor(id))}

\* C4: for every raw object o, in every state of the registry,
\* reactive(reactive(o)) = reactive(o), a second reactive(o) returns the same
\* wrapper, and raw(reactive(o)) = o
C4_IdempotentWrap ==
    \A id \in Instrumented :
        LET r1 == reactive(Reg, Raw(id))
            r2 == reactive(r1.reg, r1.ret)
            r3 == reactive(r2.reg, Raw(id))
        IN  /\ r1.ret.t = "proxy"
            /\ r2.ret = r1.ret
            /\ r3.ret = r1.ret
            /\ raw(r3.reg, r1.ret) = Raw(id)

\* every raw object of the data model has been wrapped, n by a read of o.c
C4_Witness ==
    /\ \A id \in Instrumented : Raw(id) \in DOMAIN rawToProxy
    /\ \E p \in DOMAIN proxyToRaw : raw(Reg, Proxy(p)) = Raw("n")

\* C5: rawToProxy and proxyToRaw are inverse to each other, no key of
\* rawToProxy is a wrapper, and reactive of a wrapped raw object returns its
\* wrapper and leaves the registry as it is
C5_Bijection ==
    /\ \A x \in DOMAIN rawToProxy :
          /\ x.t = "raw"
          /\ rawToProxy[x] \in DOMAIN proxyToRaw
          /\ proxyToRaw[rawToProxy[x]] = x
          /\ reactive(Reg, x) = [reg |-> Reg, ret |-> Proxy(rawToProxy[x])]
    /\ \A p \in DOMAIN proxyToRaw :
          /\ proxyToRaw[p] \in DOMAIN rawToProxy
          /\ rawToProxy[proxyToRaw[p]] = p
          /\ reactive(Reg, Proxy(p)).ret = Proxy(p)

\* o and n are wrapped, n on a read of o.c inside a reaction
C5_Witness ==
    /\ {Raw("o"), Raw("n")} \subseteq DOMAIN rawToProxy
    /\ rawToProxy[Raw("o")] # rawToProxy[Raw("n")]
    /\ "readc" \in reactions /\ <<"o", "c">> \in reads["readc"]

\* the value written is the key's current value, or the wrapper a read of the
\* key returns
IdenticalWrite(f) ==
    /\ f.key \in DOMAIN f.pre
    /\ \/ f.wval = f.pre[f.key]
       \/ /\ f.pre[f.key] \in DOMAIN rawToProxy
          /\ f.wval = Proxy(rawToProxy[f.pre[f.key]])

\* C6: a write of the key's current value collects and runs no reaction
C6_IdenticalWrite ==
    \A i \in Handlers :
        LET f == ctl[i] IN
        (f.what = "set" /\ IdenticalWrite(f)) =>
            f.snap = <<>> /\ f.started = <<>>

\* C8: push of k >= 1 items onto a wrapped array of length n triggers with
\* inserted = the items in order, insertedStart = n and no deleted;
\* splice(s, d, items...) with 0 <= s < n, d >= 1 and at least one item triggers
\* with inserted = items, insertedStart = s, deleted = the elements removed and
\* deletedStart = s; the operation is handed to every idle live reaction that
\* read the length
C8_ArrayDescriptor ==
    /\ \A i \in Handlers :
          LET f == ctl[i]
              n == Len(f.pre)
          IN  /\ (f.what = "push" /\ Len(f.args) >= 1) =>
                    /\ f.op.type = "array" /\ f.op.target = f.target
                    /\ f.op.hasInserted /\ f.op.inserted = f.args
                    /\ f.op.insertedStart = Prim(n)
                    /\ ~f.op.hasDeleted
              /\ (/\ f.what = "splice" /\ Len(f.args) >= 3
                  /\ f.args[1].t = "prim" /\ f.args[1].n >= 0 /\ f.args[1].n < n
                  /\ f.args[2].t = "prim" /\ f.args[2].n >= 1) =>
                    LET s == f.args[1].n
                        d == f.args[2].n
                    IN  /\ f.op.type = "array" /\ f.op.target = f.target
                        /\ f.op.hasInserted /\ f.op.inserted = SubSeq(f.args, 3, Len(f.args))
                        /\ f.op.insertedStart = Prim(s)
                        /\ f.op.hasDeleted
                        /\ f.op.deleted = SubSeq(f.pre, s + 1, Min(s + d, n))
                        /\ f.op.deletedStart = Prim(s)
              /\ f.what \in {"push", "splice"} =>
                    \A r \in IdleLive(f) :
                        <<f.target, "length">> \in f.readsAt[r] =>
                            /\ Count(f.snap, r) = 1
                            /\ Count(f.started, r) = IF r \in Range(f.queue) THEN 0 ELSE 1
    /\ \A j \in Bodies :
          (ctl[j].cause = "trigger" /\ ctl[j - 1].what \in {"push", "splice"}) =>
              ctl[j].arg = ctl[j - 1].op

\* splice(1, 1, x) on a wrapped array of three elements is running the
\* reaction that read the length, which received inserted = [x] at 1 and
\* deleted = [the element that was at 1] at 1
C8_Witness ==
    \E j \in Bodies :
        /\ ctl[j].cause = "trigger" /\ ctl[j].r = "lenreader"
        /\ ctl[j - 1].what = "splice" /\ Len(ctl[j - 1].pre) = 3
        /\ Len(ctl[j - 1].args) = 3
        /\ ctl[j - 1].args[1] = Prim(1) /\ ctl[j - 1].args[2] = Prim(1)
        /\ ctl[j].arg.inserted = <<ctl[j - 1].args[3]>>
        /\ ctl[j].arg.deleted = <<ctl[j - 1].pre[2]>>
        /\ ctl[j].arg.insertedStart = Prim(1) /\ ctl[j].arg.deletedStart = Prim(1)
        /\ arr["arr"] = <<ctl[j - 1].pre[1], ctl[j - 1].args[3], ctl[j - 1].pre[3]>>

\* C9: m.set(k, v) on a wrapped Map collects every idle live reaction whose
\* last run called m.get(k) when k was absent or held another value, and does
\* not collect it when k already held v
C9_KeyedCollection ==
    \A i \in Handlers :
        LET f == ctl[i] IN
        f.what = "Map.set" =>
            \A r \in IdleLive(f) :
                <<f.target, f.key>> \in f.readsAt[r] =>
                    /\ Changed(f) =>
                          /\ Count(f.snap, r) = 1
                          /\ Count(f.started, r) = IF r \in Range(f.queue) THEN 0 ELSE 1
                    /\ ~Changed(f) =>
                          /\ r \notin Range(f.snap)
                          /\ r \notin Range(f.started)

\* C11: a reaction that is on the reaction stack is not run again: no body of
\* r is running above a run of r that is on the stack, and a trap runs none of
\* the reactions that were on the stack when it was called
C11_ReentrancyGuard ==
    /\ \A j \in Bodies : \A k \in Bodies :
          (j < k /\ ctl[j].r = ctl[k].r) => ~ctl[j].pushed
    /\ \A i \in Handlers : Range(ctl[i].started) \cap ctl[i].stackAt = {}

\* C12: when an exception thrown by a reaction body leaves a call (of the
\* reaction, of the write that triggered it, or of observe), reactionStack is
\* what it was when that call was made; the stack holds exactly the tracked
\* runs in progress, so a later read is registered for the reaction whose run
\* makes it, or for none
C12_ExceptionUnwinds ==
    /\ Thrown => reactionStack = Last(ctl).stk
    /\ reactionStack = TrackedRuns(IF Thrown THEN Front(ctl) ELSE ctl)

\* the write of o.a made by catcher inside try ran thrower, which threw; the
\* exception was caught and catcher has read o.c afterwards, registered for
\* catcher
C12_Witness ==
    /\ Len(ctl) >= 1 /\ Last(ctl).k = "body" /\ Last(ctl).r = "catcher" /\ Last(ctl).pc = 4
    /\ Last(ctl).caught = 1
    /\ "c" \in DOMAIN connectionStore[Raw("o")]
    /\ "catcher" \in Range(connectionStore[Raw("o")]["c"])
    /\ reactionStack = <<"catcher">>

\* C13: a stopped reaction stays stopped, and a call of a stopped reaction runs
\* fn as a plain function: the reaction is not pushed on the stack, its
\* dependencies are not released and none is registered for it
C13_StoppedPassThrough ==
    /\ \A i \in Handlers : \A r \in ctl[i].stoppedAt : unobserved[r]
    /\ \A j \in Bodies :
          LET f == ctl[j] IN
          ~f.pushed =>
              /\ unobserved[f.r]
              /\ Count(reactionStack, f.r) = Count(f.stk, f.r)
              /\ cleaners[f.r] = f.cleanersAt

\* C14: a stopped reaction is in no set of the store and its cleaners list is
\* empty
C14_StoppedPruned ==
    \A r \in reactions :
        unobserved[r] => DepsOf(r) = {} /\ cleaners[r] = <<>>

\* C15: in every reachable state unobserve of a stopped reaction changes
\* nothing, and unobserve twice gives the state unobserve once gives
C15_UnobserveIdempotent ==
    \A r \in reactions :
        /\ unobserved[r] => unobserve(St, r) = St
        /\ unobserve(unobserve(St, r), r) = unobserve(St, r)

\* stopper has called unobserve(reader) in a run triggered by a write made
\* when reader was already stopped
C15_Witness ==
    \E j \in Bodies :
        /\ j = Len(ctl) /\ ctl[j].r = "stopper" /\ ctl[j].cause = "trigger" /\ ctl[j].pc = 4
        /\ "reader" \in ctl[j - 1].stoppedAt
        /\ unobserved["reader"] /\ cleaners["reader"] = <<>>

\* the value a read returns is a primitive or a wrapper the registry knows
Navigable(res) ==
    /\ res.ret.t # "raw"
    /\ res.ret.t = "proxy" => res.ret.n \in DOMAIN res.S.ptr

\* C16: in every reachable state a read of a property of a wrapped plain
\* object or of an element of a wrapped array, and a read of an entry of a
\* wrapped Map made while a reaction is running, returns a primitive or a
\* wrapper, and never a raw object
C16_WrapperNavigation ==
    /\ \A id \in PlainIds : \A key \in {"a", "c"} :
          Wrapped(id) => Navigable(baseGet(St, id, key))
    /\ \A id \in ArrIds : \A key \in {"0", "1", "length"} :
          Wrapped(id) => Navigable(arrayGet(St, id, key))
    /\ \A id \in MapIds : \A key \in {"k"} :
          (Wrapped(id) /\ hasRunningReaction(St)) =>
              Navigable(instrumentations_get(St, id, key))

\* C17: no property of a raw plain object, no element of a raw array and no
\* entry of a raw Map holds a wrapper
C17_NoWrapperInRaw ==
    /\ \A id \in PlainIds : \A key \in DOMAIN obj[id] : obj[id][key].t # "proxy"
    /\ \A id \in ArrIds : \A i \in 1 .. Len(arr[id]) : arr[id][i].t # "proxy"
    /\ \A id \in MapIds : \A key \in DOMAIN map[id] : map[id][key].t # "proxy"

\* the values that are no wrapper of the registry
NotWrappers == {Raw(id) : id \in RawIds} \cup PrimVals \cup {Undef, NaN}

\* C18: raw(x) for a value x that is no wrapper of the registry (a raw object,
\* wrapped or not, a primitive, undefined) returns undefined; raw is defined
\* for every argument
C18_InvalidUnwrap ==
    /\ (returned.fn = "raw" /\ returned.arg \in NotWrappers) => returned.val = Undef
    /\ \A x \in NotWrappers : raw(Reg, x) = Undef

\* raw(o) was called for the raw object o, which has a wrapper, and returned
\* undefined
C18_Witness ==
    /\ returned.fn = "raw" /\ returned.arg = Raw("o") /\ returned.val = Undef
    /\ Raw("o") \in DOMAIN rawToProxy

\* C19 (as the code has it): raw(x) returns the raw object the registry stores
\* for x when x is a wrapper, and undefined, not x, when x is a raw object or
\* a primitive
C19_RawOfWrapper ==
    /\ (returned.fn = "raw" /\ returned.arg.t = "proxy") =>
          /\ returned.val = proxyToRaw[returned.arg.n]
          /\ returned.val.t = "raw"
          /\ rawToProxy[returned.val] = returned.arg.n
    /\ (returned.fn = "raw" /\ returned.arg.t \in {"raw", "prim"}) =>
          returned.val = Undef /\ returned.val # returned.arg

\* raw() was called with the wrapper of n and returned n
C19_Witness ==
    /\ returned.fn = "raw" /\ returned.arg.t = "proxy" /\ returned.val = Raw("n")

\* C19 as stated: raw(x) returns x itself when x was never wrapped, and the
\* stored raw object when x is a wrapper
C19_RawIdentity ==
    /\ (returned.fn = "raw" /\ returned.arg.t = "proxy") =>
          returned.val = proxyToRaw[returned.arg.n]
    /\ (returned.fn = "raw" /\ returned.arg.t # "proxy"
           /\ returned.arg \notin DOMAIN rawToProxy) =>
          returned.val = returned.arg

\* C20: wrapper[i] = v on a wrapped array collects every idle live reaction
\* whose last run read index i when v differs from the element at i (type set)
\* or when i was absent (type add), and collects none when v is the element
\* already at i
C20_ElementWrite ==
    \A j \in Handlers :
        LET f       == ctl[j]
            i       == IndexOfKey(f.key)
            present == i < Len(f.pre)
            changed == ~present \/ f.pre[i + 1] # f.wval
        IN  f.what = "array.set" =>
                \A r \in IdleLive(f) :
                    <<f.target, f.key>> \in f.readsAt[r] =>
                        /\ changed =>
                              /\ r \in Range(f.snap)
                              /\ f.op.type = IF present THEN "set" ELSE "add"
                        /\ ~changed => r \notin Range(f.snap)

\* the number of items the call of f passes for insertion, and the number of
\* elements it took out of the array
InsertedCount(f) ==
    CASE f.what \in {"push", "unshift"} -> Len(f.args)
      [] f.what = "splice" -> IF Len(f.args) > 2 THEN Len(f.args) - 2 ELSE 0
      [] OTHER -> 0
RemovedCount(f) == Len(f.pre) + InsertedCount(f) - Len(arr[f.target])

\* C21: a call of push, pop, shift, unshift or splice that inserts no item
\* publishes insertedStart = -1 and no inserted items, and one that removes no
\* element publishes deletedStart = -1 and no deleted items
C21_UnusedFields ==
    \A i \in Handlers :
        LET f == ctl[i] IN
        f.what \in MutatingMethods =>
            /\ InsertedCount(f) = 0 =>
                  f.op.insertedStart = Prim(-1) /\ f.op.inserted = <<>>
            /\ RemovedCount(f) = 0 =>
                  f.op.deletedStart = Prim(-1) /\ f.op.deleted = <<>>

\* what an accessor of a Map yields for the stored value x, given whether a
\* reaction is running and whether x had a wrapper: the wrapper of a raw
\* object (an existing one also when no reaction is running), x otherwise
Yields(x, val, running, had, rtp) ==
    IF x.t = "raw" /\ (running \/ had)
    THEN val.t = "proxy" /\ x \in DOMAIN rtp /\ rtp[x] = val.n
    ELSE val = x

\* C22 (as the code has it): get and values of a wrapped Map return a stored
\* raw object as its wrapper while a reaction is running, creating the wrapper
\* when there is none; while no reaction is running they return it as its
\* wrapper when it already has one and raw when it has none; any other stored
\* value is returned as it is
C22_KeyedYield ==
    /\ returned.fn = "Map.get" =>
          Yields(returned.was[1], returned.val, FALSE, returned.was[1] \in returned.had,
                 rawToProxy)
    /\ returned.fn = "Map.values" =>
          /\ Len(returned.vals) = Len(returned.was)
          /\ \A i \in 1 .. Len(returned.was) :
                Yields(returned.was[i], returned.vals[i], FALSE,
                       returned.was[i] \in returned.had, rawToProxy)
    /\ \A j \in Bodies :
          (j = Len(ctl) /\ ctl[j].pc = 2 /\ Prog(ctl[j].r)[1].i = "mapget") =>
              Yields(NativeMapGet(map[Prog(ctl[j].r)[1].o], Prog(ctl[j].r)[1].k), ctl[j].acc,
                     ctl[j].pushed, FALSE, rawToProxy)
    /\ \A id \in MapIds :
          Wrapped(id) =>
              LET res == instrumentations_values(St, id)
                  was == NativeMapValues(map[id])
              IN  \A i \in 1 .. Len(was) :
                      Yields(was[i], res.ret[i], hasRunningReaction(St),
                             was[i] \in DOMAIN rawToProxy, res.S.rtp)

\* m.get(k) returned n raw to the application while n had no wrapper, and the
\* reaction that calls m.get(k) is now running and has received the wrapper
\* of n
C22_Witness ==
    /\ returned.fn = "Map.get" /\ returned.was = <<Raw("n")>> /\ returned.had = {}
    /\ returned.val = Raw("n")
    /\ \E j \in Bodies :
          /\ j = Len(ctl) /\ ctl[j].r = "mapget" /\ ctl[j].pc = 2 /\ ctl[j].pushed
          /\ map["m"]["k"] = Raw("n")
          /\ ctl[j].acc = Proxy(rawToProxy[Raw("n")])

\* C22 as stated: while no reaction is running, get and values return a
\* stored raw object raw
C22_RawOutside ==
    /\ (returned.fn = "Map.get" /\ returned.was[1].t = "raw") =>
          returned.val = returned.was[1]
    /\ returned.fn = "Map.values" =>
          \A i \in 1 .. Len(returned.was) :
              returned.was[i].t = "raw" => returned.vals[i] = returned.was[i]

\* the raw objects whose constructor is a built-in that has no handlers
PassedThrough == {Raw(id) : id \in {i \in RawIds : ~shouldInstrument(Constructor(i))}}

\* C23: reactive(x) for an object of a built-in constructor without handlers
\* returns x and leaves both registry maps and the store as they were; such
\* an object never has a wrapper, a mapping or a store entry
C23_BuiltInPassThrough ==
    /\ [](\A x \in {Raw(id) : id \in DateIds} :
             /\ x \notin DOMAIN rawToProxy
             /\ x \notin DOMAIN connectionStore
             /\ \A p \in DOMAIN proxyToRaw : proxyToRaw[p] # x)
    /\ [][(returned' # returned /\ returned'.fn = "reactive"
              /\ returned'.arg \in {Raw(id) : id \in DateIds}) =>
            /\ returned'.val = returned'.arg
            /\ rawToProxy' = rawToProxy
            /\ proxyToRaw' = proxyToRaw
            /\ connectionStore' = connectionStore]_vars

\* reactive(d) has returned d for the Date d, while the plain object o has a
\* wrapper
C23_Witness ==
    /\ returned.fn = "reactive" /\ returned.arg = Raw("d") /\ returned.val = Raw("d")
    /\ Raw("d") \in PassedThrough
    /\ Raw("o") \in DOMAIN rawToProxy

\* the reactions whose dependencies are released in this step: the start of a
\* run and unobserve empty the cleanup list
Released == {r \in DOMAIN cleaners : cleaners[r] # <<>> /\ cleaners'[r] = <<>>}

\* C24: the store has an entry for exactly the raw objects that have a
\* wrapper; an entry stays, with every key it has, and a reaction leaves the
\* set of a key only when its dependencies are released, so reactive() and
\* nested reads discard nothing
C24_StoreEntries ==
    /\ [](DOMAIN connectionStore = DOMAIN rawToProxy)
    /\ [][/\ \A x \in DOMAIN connectionStore' \ DOMAIN connectionStore :
                x \in DOMAIN rawToProxy' \ DOMAIN rawToProxy
          /\ \A x \in DOMAIN connectionStore :
                /\ x \in DOMAIN connectionStore'
                /\ \A key \in DOMAIN connectionStore[x] :
                      /\ key \in DOMAIN connectionStore'[x]
                      /\ Range(connectionStore[x][key]) \ Range(connectionStore'[x][key])
                            \subseteq Released]_vars

\* readc is registered for c of o, the nested object n under o.c has been
\* wrapped by a read and has its own entry, and no call is in progress
C24_Witness ==
    /\ ctl = <<>>
    /\ Raw("o") \in DOMAIN connectionStore /\ Raw("n") \in DOMAIN connectionStore
    /\ "c" \in DOMAIN connectionStore[Raw("o")]
    /\ "readc" \in Range(connectionStore[Raw("o")]["c"])

\* the raw object has the change the trap of handler frame f made
Applied(f) ==
    CASE f.what = "set" ->
             f.key \in DOMAIN obj[f.target] /\ obj[f.target][f.key] = f.wval
      [] f.what = "deleteProperty" -> f.key \notin DOMAIN obj[f.target]
      [] OTHER -> TRUE

\* C25: when a write or delete through the wrapper of a plain object is about
\* to call its first reaction, and when that reaction starts, the raw object
\* already has the change, and a reaction that reads the written key receives
\* the new value; when the trap returns, every reaction it collected has been
\* called and has returned, except those that were running when the trap was
\* called
C25_SynchronousOrder ==
    /\ [](\A i \in Handlers :
             LET f == ctl[i] IN
             /\ (i = Len(ctl) /\ f.started = <<>>) => Applied(f)
             /\ (i + 1 = Len(ctl) /\ Len(f.started) = 1 /\ ctl[i + 1].k = "body") =>
                   /\ ctl[i + 1].pc = 1 => Applied(f)
                   /\ (ctl[i + 1].pc = 2 /\ f.what = "set"
                          /\ Prog(ctl[i + 1].r)[1] = Ins("get", f.target, f.key, "", 0)) =>
                         ctl[i + 1].acc = f.wval)
    /\ [][(ctl # <<>> /\ Last(ctl).k = "handler" /\ ctl' = Front(ctl)) =>
             /\ Last(ctl).queue = <<>>
             /\ \A r \in Range(Last(ctl).snap) :
                   r \in Range(Last(ctl).started) \/ r \in Range(Last(ctl).stk)]_vars

\* the write of a new value to o.a has called reader and mirror, both have
\* returned, and the trap is about to return; o.a has the new value
C25_Witness ==
    /\ Len(ctl) = 1 /\ ctl[1].k = "handler" /\ ctl[1].what = "set"
    /\ ctl[1].target = "o" /\ ctl[1].key = "a"
    /\ "a" \in DOMAIN ctl[1].pre /\ ctl[1].pre["a"] # ctl[1].wval
    /\ obj["o"]["a"] = ctl[1].wval
    /\ {"reader", "mirror"} \subseteq Range(ctl[1].snap)
    /\ ctl[1].queue = <<>> /\ ctl[1].started = ctl[1].snap

\* C26: once a Binding in mode OneTime is loaded and its source has changed,
\* the element has been updated exactly once, by the first change: it shows a
\* value other than the one it was loaded with, and later changes left it
C26_OneTime ==
    (binding.mode = "OneTime" /\ binding.loaded /\ ctl = <<>> /\ binding.changes >= 1) =>
        binding.updates = 1 /\ binding.element # binding.data

\* the key whose set stands for the structure of the target
StructuralKey(target) == IF target \in ArrIds THEN "length" ELSE ITERATION_KEY

\* C27: when a trap has collected the reactions of an operation and has called
\* none yet, the reactions collected are those of the set of the operation's
\* key, together with those of the structural key's set exactly when the type
\* is add, delete, clear or array; the structural key of an array is "length"
C27_ReactionsForOperation ==
    \A i \in Handlers :
        LET f == ctl[i] IN
        (i = Len(ctl) /\ f.started = <<>> /\ f.op.type # "none") =>
            Range(f.snap) =
                Range(ReactionsFor(connectionStore, f.op.target, f.op.key))
                \cup (IF f.op.type \in {"add", "delete", "clear", "array"}
                      THEN Range(ReactionsFor(connectionStore, f.op.target,
                                              StructuralKey(f.op.target)))
                      ELSE {})

\* a change of the value of o.a has collected reader and not keys, which is
\* in the set of the structural key of o, while lenreader is in the set of
\* "length" of arr
C27_Witness ==
    /\ Len(ctl) = 1 /\ ctl[1].k = "handler" /\ ctl[1].started = <<>>
    /\ ctl[1].op.type = "set" /\ ctl[1].op.target = "o" /\ ctl[1].op.key = "a"
    /\ ctl[1].snap = <<"reader">>
    /\ "keys" \in Range(ReactionsFor(connectionStore, "o", ITERATION_KEY))
    /\ "lenreader" \in Range(ReactionsFor(connectionStore, "arr", "length"))
    /\ "lenreader" \notin Range(ReactionsFor(connectionStore, "arr", ITERATION_KEY))

\* the (object, key) pairs whose set holds reaction r in store cs
SetsOf(cs, r) ==
    UNION {{<<x.o, key>> : key \in {k \in DOMAIN cs[x] : r \in Range(cs[x][k])}} :
              x \in DOMAIN cs}

\* C28: a step adds a reaction to the set of a key only if that reaction is
\* on top of the reaction stack, and it then appends that set to the
\* reaction's cleanup list; no set holds a reaction twice, and the cleanup
\* list of a reaction names each set that holds it exactly once, however
\* often the key was read
C28_RegistersTopOnce ==
    /\ [](\A r \in reactions :
             /\ \A e \in SetsOf(connectionStore, r) :
                   /\ Count(ReactionsFor(connectionStore, e[1], e[2]), r) = 1
                   /\ Count(cleaners[r], e) = 1
             /\ Range(cleaners[r]) \subseteq SetsOf(connectionStore, r))
    /\ [][\A r \in reactions :
             \A e \in SetsOf(connectionStore', r) \ SetsOf(connectionStore, r) :
                 /\ reactionStack # <<>> /\ r = Last(reactionStack)
                 /\ cleaners'[r] = Append(cleaners[r], e)]_vars

\* twice, running nested in the write of outer, has read o.b two times: it is
\* once in the set of (o, b), that set is once in its cleanup list, and outer
\* is not in that set
C28_Witness ==
    /\ reactionStack = <<"outer", "twice">>
    /\ Len(ctl) >= 1 /\ Last(ctl).k = "body" /\ Last(ctl).r = "twice" /\ Last(ctl).pc = 3
    /\ cleaners["twice"] = <<<<"o", "b">>>>
    /\ ReactionsFor(connectionStore, "o", "b") = <<"twice">>
    /\ <<"o", "a">> \in Range(cleaners["outer"])

\* C29: the reaction stack holds no reaction twice and is the sequence of the
\* runs in progress, outermost first; a reaction B that a write inside the
\* run of another reaction A starts is pushed on top of A, a step of its run
\* adds only B to the sets of keys, and when its run returns the stack is what
\* it was when the write was made, so that the reads A makes next are
\* registered for A
C29_StackDiscipline ==
    /\ [](/\ \A r \in reactions : Count(reactionStack, r) <= 1
          /\ reactionStack = TrackedRuns(ctl)
          /\ \A i \in Handlers :
                (i >= 2 /\ i + 1 = Len(ctl) /\ ctl[i - 1].k = "body" /\ ctl[i - 1].pushed
                    /\ ctl[i + 1].k = "body" /\ ctl[i + 1].pushed) =>
                   /\ ctl[i + 1].r # ctl[i - 1].r
                   /\ Last(ctl[i].stk) = ctl[i - 1].r
                   /\ reactionStack = Append(ctl[i].stk, ctl[i + 1].r))
    /\ [][/\ \A r \in reactions :
                SetsOf(connectionStore', r) \ SetsOf(connectionStore, r) # {} =>
                    r = EnclosingRun(St)
          /\ (ctl # <<>> /\ Last(ctl).k = "body" /\ Last(ctl).pushed /\ ctl' = Front(ctl)) =>
                /\ reactionStack = Append(Last(ctl).stk, Last(ctl).r)
                /\ reactionStack' = Last(ctl).stk]_vars

\* outer has read o.a and written o.b; the write has started twice, which has
\* read o.b: the stack is outer, twice, the read of o.b is registered for
\* twice only and the read of o.a for outer only
C29_Witness ==
    /\ Len(ctl) >= 3
    /\ LET n == Len(ctl) IN
       /\ ctl[n - 2].k = "body" /\ ctl[n - 2].r = "outer" /\ ctl[n - 2].pc = 3
       /\ ctl[n - 1].k = "handler" /\ ctl[n - 1].what = "set" /\ ctl[n - 1].key = "b"
       /\ ctl[n - 1].started = <<"twice">>
       /\ ctl[n].k = "body" /\ ctl[n].r = "twice" /\ ctl[n].pc = 2
    /\ reactionStack = <<"outer", "twice">>
    /\ SetsOf(connectionStore, "twice") = {<<"o", "b">>}
    /\ SetsOf(connectionStore, "outer") = {<<"o", "a">>}

\* the array that results from removing the items op.deleted at
\* op.deletedStart from a and then inserting op.inserted at op.insertedStart,
\* each done as splice does it; a start of -1 with no items is a side not used
Replay(a, op) ==
    LET afterDelete ==
            IF op.deleted = <<>> THEN a
            ELSE NativeSplice(a, <<op.deletedStart, Prim(Len(op.deleted))>>).after
    IN  IF op.inserted = <<>> THEN afterDelete
        ELSE NativeSplice(afterDelete, <<op.insertedStart, Prim(0)>> \o op.inserted).after

\* C30: when push, pop, shift, unshift or splice has published its descriptor
\* and no reaction has run yet, removing the deleted items at deletedStart and
\* then inserting the inserted items at insertedStart in the array as it was
\* before the call gives the array as it is after the call
C30_DescriptorReplay ==
    \A i \in Handlers :
        LET f == ctl[i] IN
        (i = Len(ctl) /\ f.started = <<>> /\ f.what \in MutatingMethods) =>
            Replay(f.pre, f.op) = arr[f.target]

\* C31: when clear() has emptied a Map that had entries, the reactions it
\* collected include every reaction, not stopped and not running, whose
\* latest run read a key or the size of that Map
C31_ClearNotifiesKeyReaders ==
    \A i \in Handlers :
        LET f == ctl[i] IN
        (f.what = "Map.clear" /\ f.pre # EmptyMap) =>
            \A r \in IdleLive(f) :
                (\E e \in f.readsAt[r] : e[1] = f.target) => r \in Range(f.snap)

\* the methods of an array that leave it as it is
ReadOnlyMethods == ArrayMethods \ MutatingMethods

\* C32: a call of a method that does not change the array, made through the
\* wrapper, collects no reaction
C32_OnlyMutatorsNotify ==
    \A i \in Handlers :
        ctl[i].what \in ReadOnlyMethods => ctl[i].snap = <<>>

\* C33: indexOf and lastIndexOf called with the wrapper of a raw object that
\* the array holds return the first and the last index of that object, and
\* the call runs no reaction: no trap is entered
C33_IndexOfUnwraps ==
    /\ []((returned.fn \in {"indexOf", "lastIndexOf"} /\ returned.arg.t = "proxy") =>
             LET x  == proxyToRaw[returned.arg.n]
                 at == {i \in 1 .. Len(returned.was) : returned.was[i] = x}
             IN  at # {} =>
                     /\ returned.val.t = "prim" /\ returned.val.n + 1 \in at
                     /\ \A i \in at : IF returned.fn = "indexOf"
                                      THEN returned.val.n + 1 <= i
                                      ELSE returned.val.n + 1 >= i)
    /\ [][(returned' # returned /\ returned'.fn \in {"indexOf", "lastIndexOf"}) =>
             ctl' = <<>> /\ arr' = arr]_vars

\* lastIndexOf was called with the wrapper of n on an array that holds n raw
\* at the indexes 0 and 2, while lenreader is registered for length: it
\* returned 2
C33_Witness ==
    /\ returned.fn = "lastIndexOf" /\ returned.arg.t = "proxy"
    /\ returned.arg.n \in DOMAIN proxyToRaw /\ proxyToRaw[returned.arg.n] = Raw("n")
    /\ returned.was = <<Raw("n"), Prim(0), Raw("n")>>
    /\ returned.val = Prim(2)
    /\ "lenreader" \in Range(ReactionsFor(connectionStore, "arr", "length"))

\* the trap of frame f was called on a key of a plain object for which the
\* store has no set: no reaction has read it, since a set, once made, stays
UnreadKey(f) ==
    /\ f.what \in {"set", "deleteProperty"}
    /\ f.started = <<>>
    /\ Raw(f.target) \in DOMAIN connectionStore
    /\ f.key \notin DOMAIN connectionStore[Raw(f.target)]

\* every trap in progress and every read of a reaction found the store entry
\* of its raw target
EntryFound ==
    /\ \A i \in Handlers : Raw(ctl[i].target) \in DOMAIN connectionStore
    /\ \A r \in reactions : \A e \in reads[r] : Raw(e[1]) \in DOMAIN connectionStore

\* C34 (as the code has it): a write or delete on a key that no reaction has
\* read collects no reaction when it changes the value of an existing key, and
\* exactly the reactions of the structural key when it adds or removes the
\* key; every trap and every read finds the store entry of its target
C34_UnreadKey ==
    /\ EntryFound
    /\ \A i \in Handlers :
          (i = Len(ctl) /\ UnreadKey(ctl[i])) =>
              Range(ctl[i].snap) =
                  IF ctl[i].op.type \in {"add", "delete"}
                  THEN Range(ReactionsFor(connectionStore, ctl[i].target, ITERATION_KEY))
                  ELSE {}

\* the value of the existing key flag, which no reaction has read, was
\* changed while reader and keys are registered: no reaction is collected
C34_Witness ==
    /\ Len(ctl) = 1 /\ UnreadKey(ctl[1])
    /\ ctl[1].key = "flag" /\ ctl[1].op.type = "set" /\ ctl[1].snap = <<>>
    /\ "reader" \in Range(ReactionsFor(connectionStore, "o", "a"))
    /\ "keys" \in Range(ReactionsFor(connectionStore, "o", ITERATION_KEY))

\* C34 as stated: a write or delete on a key that no reaction has read
\* collects no reaction
C34_UnreadKeySilent ==
    \A i \in Handlers :
        (i = Len(ctl) /\ UnreadKey(ctl[i])) => ctl[i].snap = <<>>

\* C35: every call in progress comes to its end by returning: whenever a
\* trap or a reaction is running, a state with no call in progress follows,
\* and, no reaction body throwing, no call is cut short by an exception
C35_CascadeTerminates == [](~Thrown) /\ ((ctl # <<>>) ~> (ctl = <<>>))

\* C36: the reactions a trap has collected hold no reaction twice; each one
\* is called at most once, and only reactions that were collected are called:
\* those called and those still to be called are disjoint parts of the
\* snapshot, whatever the reactions called have registered meanwhile
C36_OncePerTrigger ==
    \A i \in Handlers :
        LET f == ctl[i] IN
        /\ \A r \in Range(f.snap) : Count(f.snap, r) = 1
        /\ \A r \in Range(f.started) : Count(f.started, r) = 1 /\ r \in Range(f.snap)
        /\ Range(f.queue) \subseteq Range(f.snap)
        /\ Range(f.queue) \cap Range(f.started) = {}

\* the key b was added while both was in the set of b and in the set of the
\* structural key: both was collected once, has been called once and has
\* registered itself in the two sets again; the trap is about to return
C36_Witness ==
    /\ Len(ctl) = 1 /\ ctl[1].k = "handler" /\ ctl[1].op.type = "add" /\ ctl[1].key = "b"
    /\ "both" \in DOMAIN ctl[1].readsAt
    /\ {<<"o", "b">>, <<"o", ITERATION_KEY>>} \subseteq ctl[1].readsAt["both"]
    /\ ctl[1].snap = <<"both">> /\ ctl[1].started = <<"both">> /\ ctl[1].queue = <<>>
    /\ "both" \in Range(ReactionsFor(connectionStore, "o", "b"))
    /\ "both" \in Range(ReactionsFor(connectionStore, "o", ITERATION_KEY))

\* C37: a reaction is in the set of (object, key) exactly when its cleanup
\* list names that set, every set a cleanup list names is a set of the store,
\* and no cleanup list names a set twice
C37_StoreCleanersConsistent ==
    \A r \in reactions :
        /\ \A x \in DOMAIN connectionStore : \A key \in DOMAIN connectionStore[x] :
              r \in Range(connectionStore[x][key]) <=> <<x.o, key>> \in Range(cleaners[r])
        /\ \A j \in 1 .. Len(cleaners[r]) :
              /\ Raw(cleaners[r][j][1]) \in DOMAIN connectionStore
              /\ cleaners[r][j][2] \in DOMAIN connectionStore[Raw(cleaners[r][j][1])]
              /\ \A k \in 1 .. Len(cleaners[r]) : cleaners[r][k] = cleaners[r][j] => k = j

\* reader was registered for o.a and has been stopped: its cleanup list is
\* empty and the set of (o, a) holds mirror only, whose cleanup list names it
C37_Witness ==
    /\ ctl = <<>>
    /\ {"reader", "mirror"} \subseteq reactions
    /\ unobserved["reader"] /\ cleaners["reader"] = <<>>
    /\ ReactionsFor(connectionStore, "o", "a") = <<"mirror">>
    /\ cleaners["mirror"] = <<<<"o", "a">>>>

\* a step that is a read through a wrapper made while the reaction stack is
\* empty: by the application, or by the body of a stopped reaction
ReadOutside ==
    /\ reactionStack = <<>>
    /\ \/ \E id \in PlainIds : \E key \in {"a", "b", "c", "flag"} : AppGet(id, key)
       \/ BodyGet

\* C38 (as the code has it): a read made while the reaction stack is empty
\* registers nothing: every cleanup list and every entry of the store stay as
\* they are; the read of a nested object that has no wrapper yet wraps it,
\* which adds an empty entry for that object to the store
C38_ReadsOutside ==
    [][ReadOutside =>
          /\ cleaners' = cleaners
          /\ \A x \in DOMAIN connectionStore :
                x \in DOMAIN connectionStore' /\ connectionStore'[x] = connectionStore[x]
          /\ \A x \in DOMAIN connectionStore' \ DOMAIN connectionStore :
                /\ connectionStore'[x] = EmptyMap
                /\ x \in DOMAIN rawToProxy' \ DOMAIN rawToProxy]_vars

\* the stopped reaction readc, called by the application, has read o.c with
\* the reaction stack empty; reader is still registered for o.a, readc for
\* nothing, and n has an empty entry
C38_Witness ==
    /\ reactionStack = <<>>
    /\ Len(ctl) = 1 /\ ctl[1].k = "body" /\ ctl[1].r = "readc" /\ ~ctl[1].pushed
    /\ ctl[1].pc = 2 /\ ctl[1].acc.t = "proxy"
    /\ unobserved["readc"] /\ cleaners["readc"] = <<>>
    /\ ReactionsFor(connectionStore, "o", "a") = <<"reader">>
    /\ ReactionsFor(connectionStore, "o", "c") = <<>>
    /\ Raw("n") \in DOMAIN connectionStore /\ connectionStore[Raw("n")] = EmptyMap

\* C38 as stated: a read made while the reaction stack is empty leaves the
\* store and every cleanup list unchanged
C38_StoreUnchanged ==
    [][ReadOutside => connectionStore' = connectionStore /\ cleaners' = cleaners]_vars


----------------------------------------------------------------------------
\* an exception thrown by a reaction body has reached the trap that was
\* running the reactions of its write
ThrownInTrigger == Thrown /\ Len(ctl) >= 2 /\ ctl[Len(ctl) - 1].k = "handler"

\* C39: when the body of a reaction run by a write's trigger throws, the raw
\* object holds the written value while the exception is in the trap, and the
\* next step hands the exception to the caller of the trap with the trap's
\* call abandoned: the reactions still queued for the write are not started
\* and the raw object is left as written
C39_RaiseAbandonsTrigger ==
    /\ [](ThrownInTrigger => Applied(ctl[Len(ctl) - 1]))
    /\ [][ThrownInTrigger =>
            /\ Len(ctl') = Len(ctl) - 1
            /\ SubSeq(ctl', 1, Len(ctl) - 2) = SubSeq(ctl, 1, Len(ctl) - 2)
            /\ Last(ctl').k = "exc"
            /\ obj' = obj /\ reads' = reads /\ reactionStack' = reactionStack]_vars

\* the application wrote a new value to o.a; thrower ran first and threw while
\* reader was still queued for the write, and o.a holds the written value
C39_Witness ==
    /\ ThrownInTrigger /\ Len(ctl) = 2
    /\ ctl[1].what = "set" /\ ctl[1].target = "o" /\ ctl[1].key = "a"
    /\ ctl[1].started = <<"thrower">> /\ ctl[1].queue = <<"reader">>
    /\ "a" \in DOMAIN ctl[1].pre /\ ctl[1].pre["a"] # ctl[1].wval
    /\ obj["o"]["a"] = ctl[1].wval


\* the same values, each as many times, in both sequences
SameItems(a, b) ==
    /\ Len(a) = Len(b)
    /\ \A v \in Range(a) \cup Range(b) : Count(a, v) = Count(b, v)

\* the ItemsSource has made its first run and no call is in progress
ItemsSettled == ctl = <<>> /\ "items" \in reactions

\* C40: once the ItemsSource has made its first run, whenever no call is in
\* progress it holds as many item nodes as the bound array has elements, and
\* the data of the nodes are the elements of the array
C40_ItemsTrackArray == ItemsSettled => SameItems(nodeDataList, arr["arr"])

=============================================================================
